---- MODULE Spec2Model ----
(***************************************************************************)
(* Balance-triggered role reconciliation engine of the Discord token gate  *)
(* (src/discord-bot/balance_monitor.py, anti_gaming_heuristics.py).        *)
(*                                                                         *)
(* Balances and thresholds are integers (token units); the code's floats   *)
(* are compared with <=, > and subtraction only, which integers keep.      *)
(***************************************************************************)
EXTENDS Integers, Sequences, FiniteSets, TLC

VARIABLES
    roles_collection,            \* db['roles']: the role catalog, a list of role documents
    balance_history_collection,  \* db['balance_history']: list of inserted delta documents
    blocked_role_assignments,    \* db['blocked_role_assignments']: the audit trail
    member_roles,                \* the platform: member id -> set of role ids
    discord_configured,          \* discord_token and guild_id are both set
    now,                         \* the clock, in minutes
    threads,                     \* role-update threads: thread id -> its locals
    users_collection,            \* db['users']: the linked accounts, a list of documents
    mon,                         \* the monitor loop: its position and monitor_cycle's locals
    last_write,                  \* per member, the last accepted role-set update (history)
    call_balance,       \* argument of a direct get_roles_for_balance call
    call_find,          \* what roles_collection.find({}) gave that call
    call_result,        \* the list that call returned
    call_state,         \* "ready" | "returned"
    call_input,         \* arguments and environment of a direct call of another function
    call_output,        \* what that call returned
    scheduler           \* running, monitor_thread and the position of _run_monitor_loop

storeVars == <<roles_collection, balance_history_collection, blocked_role_assignments,
               users_collection>>
platformVars == <<member_roles, last_write>>
callVars == <<call_balance, call_find, call_result, call_state, call_input, call_output>>
vars == <<roles_collection, balance_history_collection, blocked_role_assignments,
          users_collection, mon,
          member_roles, discord_configured, now, threads, last_write,
          call_balance, call_find, call_result, call_state, call_input, call_output,
          scheduler>>

----------------------------------------------------------------------------
(* Bounds of the model *)

MaxRoles == 3        \* longest catalog enumerated for the resolver
MaxThreshold == 2    \* largest amountThreshold enumerated for the resolver
MaxBalance == 3      \* largest balance enumerated for the resolver
MaxCycles == 2       \* poll cycles run by the monitor
MaxDeltas == 2       \* deltas handed to the role-update threads, all lists together
MaxDenoms == 2       \* denominations in the body of a balance reply
MaxHistory == 3      \* BalanceRecords stored when the validator is called
MaxStarts == 2       \* loop threads started by start_monitoring
MaxWallets == 12     \* linked wallets of a cycle cut into batches

----------------------------------------------------------------------------
(* Role documents and the catalog *)

RoleIds == {"H", "A1", "A2"}

\* database.add_role: amountThreshold is stored only when given
HolderDoc(id) == [discordRoleId |-> id, type |-> "holder"]
AmountDoc(id, thr) == [discordRoleId |-> id, type |-> "amount", amountThreshold |-> thr]
AmountDocNoThreshold(id) == [discordRoleId |-> id, type |-> "amount"]

RoleDocs ==
    {HolderDoc(id) : id \in RoleIds}
    \cup {AmountDocNoThreshold(id) : id \in RoleIds}
    \cup {AmountDoc(id, thr) : id \in RoleIds, thr \in 0..MaxThreshold}

SeqsUpTo(S, n) == UNION {[1..k -> S] : k \in 0..n}

\* role.get('amountThreshold', 0)
AmountThresholdOf(role) ==
    IF "amountThreshold" \in DOMAIN role THEN role.amountThreshold ELSE 0

\* roles_collection.find({}): the documents, or an exception
FindOk(docs) == [ok |-> TRUE, docs |-> docs]
FindError == [ok |-> FALSE, docs |-> <<>>]

\* {role['discordRoleId'] for role in roles}
RoleIdSet(roles) == {roles[i].discordRoleId : i \in DOMAIN roles}

----------------------------------------------------------------------------
(* BalanceMonitor.get_roles_for_balance *)

\* mutant of NotPositive: the guard lets a zero balance through
NotPositive_strict(balance) == balance < 0

\* if balance <= 0: return []
NotPositive(balance) == balance <= 0

\* mutant of SortsBefore: ascending order, the lowest qualifying tier comes first
SortsBefore_ascending(a, b) == AmountThresholdOf(a) <= AmountThresholdOf(b)

\* list.sort(key=amountThreshold, reverse=True) is stable: an element stays
\* before a later one unless the later one has a strictly greater key
SortsBefore(a, b) == AmountThresholdOf(a) >= AmountThresholdOf(b)

RECURSIVE InsertSorted(_, _)
InsertSorted(sorted, role) ==
    IF sorted = <<>> THEN <<role>>
    ELSE IF SortsBefore(Head(sorted), role)
         THEN <<Head(sorted)>> \o InsertSorted(Tail(sorted), role)
         ELSE <<role>> \o sorted

RECURSIVE SortByThresholdDesc(_)
SortByThresholdDesc(roles) ==
    IF roles = <<>> THEN <<>>
    ELSE InsertSorted(SortByThresholdDesc(SubSeq(roles, 1, Len(roles) - 1)),
                      roles[Len(roles)])

IsHolder(role) == role.type = "holder"
IsAmount(role) == role.type = "amount"

get_roles_for_balance(balance, find) ==
    IF NotPositive(balance) THEN <<>>
    ELSE IF ~find.ok THEN <<>>            \* except Exception: return []
    ELSE
        LET all_roles == find.docs
            holder_roles == SelectSeq(all_roles, IsHolder)
            amount_roles == SelectSeq(all_roles, IsAmount)
            qualified_amount_roles ==
                SortByThresholdDesc(
                    SelectSeq(amount_roles,
                              LAMBDA role : AmountThresholdOf(role) <= balance))
        IN  (IF balance > 0 THEN holder_roles ELSE <<>>)
            \o (IF qualified_amount_roles # <<>>
                THEN <<qualified_amount_roles[1]>> ELSE <<>>)

----------------------------------------------------------------------------
(* AntiGamingHeuristics: the validator *)

min_wallet_age_days == 7
max_volatility_num == 1          \* max_volatility_threshold = 0.5 = 1/2
max_volatility_den == 2
volatility_window_minutes == 10
avg_factor_num == 7              \* the average may reach 0.7 of the threshold
avg_factor_den == 10
HoursPerDay == 24

\* What the chain gateway answers to the first-transaction lookup
AgeHttpError == [kind |-> "http_error", age_hours |-> 0]
AgeNoTxs == [kind |-> "no_txs", age_hours |-> 0]
AgeNoTimestamp == [kind |-> "no_timestamp", age_hours |-> 0]
AgeException == [kind |-> "exception", age_hours |-> 0]
AgeOf(hours) == [kind |-> "first_tx", age_hours |-> hours]

\* the answers a role-update thread may get: unavailable, no history, young, old
AgeResponses ==
    {AgeHttpError, AgeNoTxs, AgeOf(3 * HoursPerDay), AgeOf(30 * HoursPerDay)}

\* the reason string of a check: its wording and the day count it cites
Reason(code, days) == [code |-> code, days |-> days]

\* timedelta.days
DaysOf(hours) == hours \div HoursPerDay

\* mutant of TooNew: a wallet exactly as old as the minimum is too new
TooNew_inclusive(age_hours) == age_hours <= min_wallet_age_days * HoursPerDay

\* wallet_age < timedelta(days=self.min_wallet_age_days)
TooNew(age_hours) == age_hours < min_wallet_age_days * HoursPerDay

\* mutant of check_wallet_age: an age that cannot be verified blocks
check_wallet_age_fail_closed(resp) ==
    IF resp.kind = "first_tx" /\ ~TooNew(resp.age_hours)
    THEN [valid |-> TRUE, reason |-> Reason("wallet_age_verified", DaysOf(resp.age_hours))]
    ELSE [valid |-> FALSE, reason |-> Reason("wallet_too_new", DaysOf(resp.age_hours))]

check_wallet_age(resp) ==
    CASE resp.kind = "exception" ->
            [valid |-> TRUE, reason |-> Reason("age_check_failed_allowed", 0)]
      [] resp.kind = "http_error" ->
            [valid |-> TRUE, reason |-> Reason("age_verification_unavailable", 0)]
      [] resp.kind = "no_txs" ->
            [valid |-> FALSE, reason |-> Reason("no_transaction_history", 0)]
      [] resp.kind = "no_timestamp" ->
            [valid |-> TRUE, reason |-> Reason("timestamp_unavailable", 0)]
      [] OTHER ->
            IF TooNew(resp.age_hours)
            THEN [valid |-> FALSE, reason |-> Reason("wallet_too_new", DaysOf(resp.age_hours))]
            ELSE [valid |-> TRUE, reason |-> Reason("wallet_age_verified", DaysOf(resp.age_hours))]

Abs(x) == IF x < 0 THEN -x ELSE x

\* find({'walletAddress': w, 'timestamp': {'$gte': cutoff}}).sort('timestamp', 1);
\* documents are inserted in timestamp order
RecentBalances(history, wallet_address, cutoff_time) ==
    SelectSeq(history,
              LAMBDA rec : rec.walletAddress = wallet_address
                           /\ rec.timestamp >= cutoff_time)

\* the changes |curr - prev| / prev of the consecutive pairs with prev > 0,
\* each kept as the fraction <<numerator, denominator>>
RECURSIVE PercentageChanges(_)
PercentageChanges(values) ==
    IF Len(values) < 2 THEN <<>>
    ELSE LET prev_balance == values[1]
             curr_balance == values[2]
         IN  (IF prev_balance > 0
              THEN << <<Abs(curr_balance - prev_balance), prev_balance>> >>
              ELSE <<>>)
             \o PercentageChanges(Tail(values))

RECURSIVE GCD(_, _)
GCD(a, b) == IF b = 0 THEN a ELSE GCD(b, a % b)

\* the sum of fractions, as one fraction in lowest terms
RECURSIVE SumFractions(_)
SumFractions(fs) ==
    IF fs = <<>> THEN <<0, 1>>
    ELSE LET rest == SumFractions(Tail(fs))
             numerator == fs[1][1] * rest[2] + rest[1] * fs[1][2]
             denominator == fs[1][2] * rest[2]
             divisor == GCD(numerator, denominator)
         IN  <<numerator \div divisor, denominator \div divisor>>

\* mutant of AvgChangeExceeds: the average is held against the whole threshold
AvgChangeExceeds_whole_threshold(changes) ==
    LET total == SumFractions(changes)
    IN  total[1] * max_volatility_den > max_volatility_num * Len(changes) * total[2]

\* mutant of InsufficientHistory: three stored samples are asked for
InsufficientHistory_three(recent_balances) == Len(recent_balances) < 3

\* if len(recent_balances) < 2
InsufficientHistory(recent_balances) == Len(recent_balances) < 2

\* max(percentage_changes) > max_volatility_threshold
MaxChangeExceeds(changes) ==
    \E k \in DOMAIN changes :
        changes[k][1] * max_volatility_den > max_volatility_num * changes[k][2]

\* statistics.mean(percentage_changes) > max_volatility_threshold * 0.7
AvgChangeExceeds(changes) ==
    LET total == SumFractions(changes)
    IN  total[1] * max_volatility_den * avg_factor_den
            > max_volatility_num * avg_factor_num * Len(changes) * total[2]

check_balance_volatility(find, wallet_address, current_balance, clock) ==
    IF ~find.ok
    THEN [valid |-> TRUE, reason |-> Reason("volatility_check_failed_allowed", 0)]
    ELSE
        LET cutoff_time == clock - volatility_window_minutes
            recent_balances == RecentBalances(find.docs, wallet_address, cutoff_time)
            balance_values ==
                [k \in 1..Len(recent_balances) |-> recent_balances[k].currentBalance]
                \o <<current_balance>>
            percentage_changes == PercentageChanges(balance_values)
        IN  IF InsufficientHistory(recent_balances)
            THEN [valid |-> TRUE, reason |-> Reason("insufficient_history", 0)]
            ELSE IF Len(balance_values) < 3
            THEN [valid |-> TRUE, reason |-> Reason("insufficient_data_points", 0)]
            ELSE IF percentage_changes = <<>>
            THEN [valid |-> TRUE, reason |-> Reason("no_valid_changes", 0)]
            ELSE IF MaxChangeExceeds(percentage_changes)
            THEN [valid |-> FALSE, reason |-> Reason("extreme_volatility", 0)]
            ELSE IF AvgChangeExceeds(percentage_changes)
            THEN [valid |-> FALSE, reason |-> Reason("high_average_volatility", 0)]
            ELSE [valid |-> TRUE, reason |-> Reason("volatility_acceptable", 0)]

\* where an exception reaches the try block of validate_wallet_for_role_assignment:
\* nowhere, out of the call of a check, or while the verdict is logged
NoError == "none"
ErrorPoints == {NoError, "age_call", "volatility_call", "logging"}

\* mutant of RunsVolatilityCheck: a failed age check ends the validation
RunsVolatilityCheck_if_age_valid(age_valid) == age_valid

\* line 188 follows the age check unconditionally
RunsVolatilityCheck(age_valid) == TRUE

\* validate_wallet_for_role_assignment with an exception at error_at: the except
\* clause appends a warning and records the error, and returns result as the
\* statements before the exception left it
validate_wallet_for_role_assignment_raising(age_resp, find, wallet_address, current_balance, clock, error_at) ==
    LET age == check_wallet_age(age_resp)
        volatility == check_balance_volatility(find, wallet_address, current_balance, clock)
        age_reasons ==
            IF age.valid THEN <<>> ELSE <<[check |-> "Wallet Age", reason |-> age.reason]>>
        volatility_reasons ==
            IF volatility.valid THEN <<>>
            ELSE <<[check |-> "Balance Volatility", reason |-> volatility.reason]>>
        warnings == <<"Validation error">>
    IN  CASE error_at = "age_call" ->
                [is_valid |-> TRUE, blocked_reasons |-> <<>>, warnings |-> warnings,
                 checks_performed |-> [error |-> TRUE]]
          [] error_at = "volatility_call" \/ ~RunsVolatilityCheck(age.valid) ->
                [is_valid |-> age.valid, blocked_reasons |-> age_reasons,
                 warnings |-> IF error_at = NoError THEN <<>> ELSE warnings,
                 checks_performed |->
                    IF error_at = NoError THEN [wallet_age |-> age]
                    ELSE [wallet_age |-> age, error |-> TRUE]]
          [] error_at = "logging" ->
                [is_valid |-> age.valid /\ volatility.valid,
                 blocked_reasons |-> age_reasons \o volatility_reasons,
                 warnings |-> warnings,
                 checks_performed |->
                    [wallet_age |-> age, balance_volatility |-> volatility, error |-> TRUE]]
          [] OTHER ->
                [is_valid |-> age.valid /\ volatility.valid,
                 blocked_reasons |-> age_reasons \o volatility_reasons,
                 warnings |-> <<>>,
                 checks_performed |->
                    [wallet_age |-> age, balance_volatility |-> volatility]]

\* validate_wallet_for_role_assignment as the role-update thread gets it: both
\* checks catch their own errors, and no exception reaches the try block
validate_wallet_for_role_assignment(age_resp, find, wallet_address, current_balance, clock) ==
    validate_wallet_for_role_assignment_raising(age_resp, find, wallet_address,
                                                current_balance, clock, NoError)

----------------------------------------------------------------------------
(* The platform, the linked accounts and balance deltas *)

Threads == {"t1", "t2"}
Members == {"m1", "m2"}
PlatformRoles == RoleIds \cup {"X"}     \* "X": a role no catalog ever holds
NoAddress == ""                         \* a falsy wallet address

\* one element of balance_updates (batch_check_balances builds it)
Delta(user, member, wallet, previous, current, time) ==
    [userId |-> user, discordId |-> member, walletAddress |-> wallet,
     previousBalance |-> previous, currentBalance |-> current, timestamp |-> time]

NoWrite == [written |-> FALSE, balance |-> 0, catalog_ok |-> FALSE]

\* the locals of one pass of the loop over balance_updates, with what the pass
\* has done so far: validator run, member read, diff computed, PATCHes sent
NewEntry ==
    [validated |-> FALSE, is_valid |-> TRUE, audit_written |-> FALSE,
     looked_up |-> FALSE, diffed |-> FALSE, catalog_ok |-> TRUE,
     seen_write |-> NoWrite,
     current_roles |-> {}, qualified_role_ids |-> {},
     roles_to_add |-> {}, roles_to_remove |-> {}, new_roles |-> {},
     patches |-> 0, outcome |-> "running"]

\* log[k] is the finished pass over balance_updates[k]; completed_logged: the
\* thread has logged "Role update completed successfully" (line 333)
IdleThread ==
    [pc |-> "idle", balance_updates |-> <<>>, i |-> 0,
     entry |-> NewEntry, log |-> <<>>, completed_logged |-> FALSE]

----------------------------------------------------------------------------
(* BalanceMonitor.update_user_roles_direct, one thread per schedule_role_update *)

\* mutant of current_managed_roles: the member's roles are not cut to the catalog
current_managed_roles_unbounded(current_roles, all_managed_role_ids) == current_roles

\* mutant of RunsValidator: the balance is not looked at
RunsValidator_any_balance(update) == update.walletAddress # NoAddress

\* if wallet_address and current_balance > 0
RunsValidator(update) ==
    update.walletAddress # NoAddress /\ update.currentBalance > 0

\* mutant of GateBlocks: an invalid result is logged but does not stop the delta
GateBlocks_never(validation_result) == FALSE

\* if not validation_result['is_valid']: ... continue
GateBlocks(validation_result) == ~validation_result.is_valid

\* current_roles & all_managed_role_ids
current_managed_roles(current_roles, all_managed_role_ids) ==
    current_roles \cap all_managed_role_ids

\* mutant of roles_to_add: roles the member already holds are listed again
roles_to_add_all_managed(qualified_role_ids, current_managed) == qualified_role_ids

roles_to_add(qualified_role_ids, current_managed) ==
    qualified_role_ids \ current_managed

\* mutant of roles_to_remove: nothing is ever revoked
roles_to_remove_none(qualified_role_ids, current_managed) == {}

roles_to_remove(qualified_role_ids, current_managed) ==
    current_managed \ qualified_role_ids

\* mutant of new_roles: the update carries the additions only
new_roles_additions_only(current_roles, to_add, to_remove) ==
    current_roles \cup to_add

\* (current_roles - roles_to_remove) | roles_to_add
new_roles(current_roles, to_add, to_remove) ==
    (current_roles \ to_remove) \cup to_add

\* mutant of FinishDelta: a delta that fails ends the run
FinishDelta_failure_ends_run(t, th, outcome) ==
    LET done == [th.entry EXCEPT !.outcome = outcome]
        logged == [th EXCEPT !.log = Append(@, done), !.entry = NewEntry]
    IN  threads' =
            [threads EXCEPT ![t] =
                IF /\ th.i < Len(th.balance_updates)
                   /\ outcome \notin {"no_member", "rejected", "exception"}
                THEN [logged EXCEPT !.i = @ + 1, !.pc = "gate"]
                ELSE [logged EXCEPT !.pc = "done", !.completed_logged = TRUE]]

\* the delta is over (continue, or the end of the loop body, or except)
FinishDelta(t, th, outcome) ==
    LET done == [th.entry EXCEPT !.outcome = outcome]
        logged == [th EXCEPT !.log = Append(@, done), !.entry = NewEntry]
    IN  threads' =
            [threads EXCEPT ![t] =
                IF th.i < Len(th.balance_updates)
                THEN [logged EXCEPT !.i = @ + 1, !.pc = "gate"]
                ELSE [logged EXCEPT !.pc = "done", !.completed_logged = TRUE]]

\* schedule_role_update starts a thread that runs update_user_roles_direct;
\* without token or guild id the function logs an error and returns (lines
\* 218-220), and run_role_update goes on to line 333
StartRoleUpdate(t, balance_updates) ==
    /\ threads[t].pc \in {"idle", "done"}     \* no thread, or one that has ended
    /\ balance_updates # <<>>
    /\ threads' =
        [threads EXCEPT ![t] =
            IF discord_configured
            THEN [IdleThread EXCEPT !.pc = "gate", !.i = 1,
                                    !.balance_updates = balance_updates]
            ELSE [IdleThread EXCEPT !.pc = "done",
                                    !.balance_updates = balance_updates,
                                    !.completed_logged = TRUE]]

\* mutant of blocked_assignment: the record carries the balance before the delta
blocked_assignment_previous(update, validation_result, clock) ==
    [timestamp |-> clock,
     discordId |-> update.discordId,
     walletAddress |-> update.walletAddress,
     currentBalance |-> update.previousBalance,
     blocked_reasons |-> validation_result.blocked_reasons,
     checks_performed |-> validation_result.checks_performed]

\* the document of lines 249-256
blocked_assignment(update, validation_result, clock) ==
    [timestamp |-> clock,
     discordId |-> update.discordId,
     walletAddress |-> update.walletAddress,
     currentBalance |-> update.currentBalance,
     blocked_reasons |-> validation_result.blocked_reasons,
     checks_performed |-> validation_result.checks_performed]

\* mutant of ExecutorLeavesBalanceState: the pass stores the delta's balance as
\* the link's last known balance
ExecutorLeavesBalanceState_link(update) ==
    /\ users_collection' =
            [k \in DOMAIN users_collection |->
                IF users_collection[k]._id = update.userId
                THEN [_id |-> users_collection[k]._id,
                      discordId |-> users_collection[k].discordId,
                      walletAddress |-> users_collection[k].walletAddress,
                      lastKnownBalance |-> update.currentBalance,
                      lastBalanceCheck |-> update.timestamp]
                ELSE users_collection[k]]
    /\ UNCHANGED balance_history_collection

\* update_user_roles_direct and the validator it calls hold users_collection
\* and balance_history_collection for reading only: no statement of a pass
\* writes to either
ExecutorLeavesBalanceState(update) ==
    UNCHANGED <<users_collection, balance_history_collection>>

\* lines 234-269: the anti-gaming gate of the current delta
Gate(t) ==
    LET th == threads[t]
        update == th.balance_updates[th.i]
    IN  /\ th.pc = "gate"
        /\ ExecutorLeavesBalanceState(update)
        /\ UNCHANGED <<roles_collection, mon, platformVars, discord_configured, now,
                       callVars, scheduler>>
        /\ IF RunsValidator(update)
           THEN \E age_resp \in AgeResponses,
                   find \in {FindOk(balance_history_collection), FindError} :
                    LET validation_result ==
                            validate_wallet_for_role_assignment(
                                age_resp, find, update.walletAddress,
                                update.currentBalance, now)
                        checked == [th EXCEPT !.entry.validated = TRUE,
                                              !.entry.is_valid = validation_result.is_valid]
                    IN  IF GateBlocks(validation_result)
                        THEN \E insert_ok \in BOOLEAN :
                                /\ blocked_role_assignments' =
                                        IF insert_ok
                                        THEN Append(blocked_role_assignments,
                                                    blocked_assignment(update,
                                                                       validation_result, now))
                                        ELSE blocked_role_assignments
                                /\ FinishDelta(t, [checked EXCEPT
                                                    !.entry.audit_written = insert_ok],
                                               "blocked")
                        ELSE /\ threads' = [threads EXCEPT ![t] = [checked EXCEPT !.pc = "member"]]
                             /\ UNCHANGED blocked_role_assignments
           ELSE /\ threads' = [threads EXCEPT ![t].pc = "member"]
                /\ UNCHANGED blocked_role_assignments

\* lines 271-298: read the member, resolve the roles, compute the diff
GetMember(t) ==
    LET th == threads[t]
        update == th.balance_updates[th.i]
        looked == [th EXCEPT !.entry.looked_up = TRUE]
    IN  /\ th.pc = "member"
        /\ ExecutorLeavesBalanceState(update)
        /\ UNCHANGED <<roles_collection, blocked_role_assignments, mon, platformVars,
                       discord_configured, now, callVars, scheduler>>
        /\ \E status \in {"200", "not200", "exception"} :
            IF status # "200"
            THEN FinishDelta(t, looked, IF status = "not200" THEN "no_member" ELSE "exception")
            ELSE \E find_qualified \in {FindOk(roles_collection), FindError},
                    find_managed \in {FindOk(roles_collection), FindError} :
                    IF ~find_managed.ok
                    THEN FinishDelta(t, looked, "exception")
                    ELSE
                        LET current == member_roles[update.discordId]
                            qualified ==
                                RoleIdSet(get_roles_for_balance(update.currentBalance,
                                                                find_qualified))
                            all_managed_role_ids == RoleIdSet(find_managed.docs)
                            current_managed ==
                                current_managed_roles(current, all_managed_role_ids)
                            to_add == roles_to_add(qualified, current_managed)
                            to_remove == roles_to_remove(qualified, current_managed)
                            computed ==
                                [looked EXCEPT
                                    !.entry.diffed = TRUE,
                                    !.entry.current_roles = current,
                                    !.entry.qualified_role_ids = qualified,
                                    !.entry.roles_to_add = to_add,
                                    !.entry.roles_to_remove = to_remove,
                                    !.entry.new_roles = new_roles(current, to_add, to_remove),
                                    !.entry.catalog_ok =
                                        find_qualified.ok \/ update.currentBalance <= 0,
                                    !.entry.seen_write = last_write[update.discordId]]
                        IN  IF to_add # {} \/ to_remove # {}
                            THEN threads' = [threads EXCEPT ![t] = [computed EXCEPT !.pc = "patch"]]
                            ELSE FinishDelta(t, computed, "skipped")

\* lines 300-313: one PATCH carrying the whole new role set
PatchMember(t) ==
    LET th == threads[t]
        update == th.balance_updates[th.i]
        sent == [th EXCEPT !.entry.patches = @ + 1]
    IN  /\ th.pc = "patch"
        /\ ExecutorLeavesBalanceState(update)
        /\ UNCHANGED <<roles_collection, blocked_role_assignments, mon,
                       discord_configured, now, callVars, scheduler>>
        /\ \E status \in {"200", "not200", "exception"} :
            IF status = "200"
            THEN /\ member_roles' = [member_roles EXCEPT ![update.discordId] = th.entry.new_roles]
                 /\ last_write' =
                        [last_write EXCEPT ![update.discordId] =
                            [written |-> TRUE, balance |-> update.currentBalance,
                             catalog_ok |-> th.entry.catalog_ok]]
                 /\ FinishDelta(t, sent, "applied")
            ELSE /\ UNCHANGED platformVars
                 /\ FinishDelta(t, sent, IF status = "not200" THEN "rejected" ELSE "exception")

----------------------------------------------------------------------------
(* The poller: monitor_cycle, batch_check_balances, save_balance_history *)

epsilon_num == 1             \* 0.000001 = 1 / 1000000
epsilon_den == 1000000

\* a users document; lastKnownBalance and lastBalanceCheck appear with the
\* first save
UserDoc(user, member, wallet) ==
    [_id |-> user, discordId |-> member, walletAddress |-> wallet]

\* wallet.get('lastKnownBalance', 0.0)
LastKnownBalanceOf(wallet) ==
    IF "lastKnownBalance" \in DOMAIN wallet THEN wallet.lastKnownBalance ELSE 0

\* self.batch_size
batch_size == 10

\* a lastKnownBalance stored as null: wallet.get returns None, and the
\* subtraction of line 132 raises TypeError
NullBalance == -1
CompareRaises(wallet) ==
    "lastKnownBalance" \in DOMAIN wallet /\ wallet.lastKnownBalance = NullBalance

\* mutant of LoopEnds: the exception of one wallet ends the loop
LoopEnds_on_error(k, n, raised) == k >= n \/ raised

\* mutant of LoopEnds: the cycle goes on to persist after its first batch
LoopEnds_after_first_batch(k, n, raised) == k >= n \/ k >= batch_size

\* the loops over the batches and over the wallets of a batch are exhausted;
\* the except clause of line 145 is inside them
LoopEnds(k, n, raised) == k >= n

\* mutant of ChangeDetected: every sample counts as a change
ChangeDetected_always(current_balance, previous_balance) == TRUE

\* abs(current_balance - previous_balance) > 0.000001
ChangeDetected(current_balance, previous_balance) ==
    Abs(current_balance - previous_balance) * epsilon_den > epsilon_num

\* amount / 1_000_000
MicroPerUnit == 1000000

\* one entry of data['balances']: an amount in micro units that float() reads,
\* an entry without 'amount' (read as 0), an amount float() raises on
Denom(amount) == [amount |-> amount, present |-> TRUE, parses |-> TRUE]
DenomNoAmount == [amount |-> 0, present |-> FALSE, parses |-> TRUE]
DenomUnparseable == [amount |-> 0, present |-> TRUE, parses |-> FALSE]

\* what session.get(url, timeout=10) and response.json() give: a status with
\* its body, a body that is no JSON, a timeout, any other exception
HttpReply(status, balances) == [kind |-> "status", status |-> status, balances |-> balances]
HttpNoJson == [kind |-> "no_json", status |-> 200, balances |-> <<>>]
HttpTimeout == [kind |-> "timeout", status |-> 0, balances |-> <<>>]
HttpException == [kind |-> "exception", status |-> 0, balances |-> <<>>]

\* the loop over balances: the sum in micro units, or the exception of float()
RECURSIVE total_balance(_)
total_balance(balances) ==
    IF balances = <<>> THEN [raised |-> FALSE, micro |-> 0]
    ELSE LET rest == total_balance(Tail(balances))
         IN  IF ~balances[1].parses \/ rest.raised
             THEN [raised |-> TRUE, micro |-> 0]
             ELSE [raised |-> FALSE,
                   micro |-> (IF balances[1].present THEN balances[1].amount ELSE 0)
                             + rest.micro]

\* the sum of the amounts float() reads, in micro units
RECURSIVE SumParsed(_)
SumParsed(balances) ==
    IF balances = <<>> THEN 0
    ELSE (IF balances[1].parses /\ balances[1].present THEN balances[1].amount ELSE 0)
         + SumParsed(Tail(balances))

\* mutant of get_wallet_balance: an amount float() raises on is skipped and the
\* rest of the sum is returned
get_wallet_balance_partial(response) ==
    IF response.kind = "status" /\ response.status = 200
    THEN SumParsed(response.balances) \div MicroPerUnit
    ELSE 0

\* mutant of get_wallet_balance: a failure is told apart from a balance of 0
get_wallet_balance_null_on_failure(response) ==
    IF response.kind = "status" /\ response.status = 200
    THEN LET total == total_balance(response.balances)
         IN  IF total.raised THEN NullBalance ELSE total.micro \div MicroPerUnit
    ELSE NullBalance

\* get_wallet_balance: the summed balance on HTTP 200, else 0.0; the sum of
\* whole-token amounts is a whole number of tokens
get_wallet_balance(response) ==
    IF response.kind = "status" /\ response.status = 200
    THEN LET total == total_balance(response.balances)
         IN  IF total.raised THEN 0 ELSE total.micro \div MicroPerUnit
    ELSE 0

\* the replies a poll cycle may get, each with its outcome (history):
\* HTTP 200 with one denomination, or a status that is not 200
FetchOk(balance) ==
    [kind |-> "status", status |-> 200, balances |-> <<Denom(balance * MicroPerUnit)>>,
     ok |-> TRUE, balance |-> balance]
FetchFailed ==
    [kind |-> "status", status |-> 500, balances |-> <<>>, ok |-> FALSE, balance |-> 0]

\* mutant of update_one: the link is set to the delta's previous balance
update_one_previous(users, update) ==
    [k \in DOMAIN users |->
        IF users[k]._id = update.userId
        THEN [_id |-> users[k]._id, discordId |-> users[k].discordId,
              walletAddress |-> users[k].walletAddress,
              lastKnownBalance |-> update.previousBalance,
              lastBalanceCheck |-> update.timestamp]
        ELSE users[k]]

\* users_collection.update_one({'_id': userId}, {'$set': {...}})
update_one(users, update) ==
    [k \in DOMAIN users |->
        IF users[k]._id = update.userId
        THEN [_id |-> users[k]._id, discordId |-> users[k].discordId,
              walletAddress |-> users[k].walletAddress,
              lastKnownBalance |-> update.currentBalance,
              lastBalanceCheck |-> update.timestamp]
        ELSE users[k]]

\* the monitor between cycles; the rest are monitor_cycle's locals
\* (batch_start..batch_end are the places in wallets of the current batch,
\* awaiting tells that the fetch of wallets[k] has been started) and, as
\* history, what the cycle did: whether an exception was raised and caught in
\* it, the response to each fetch, the response behind
\* each delta, how many records insert_many stored, which links update_one
\* set, what the last finished cycle owed, sampled and dispatched
StoppedMonitor ==
    [pc |-> "sleeping", cycle |-> 0, wallets |-> <<>>, k |-> 0,
     batch_start |-> 0, batch_end |-> 0, awaiting |-> FALSE,
     balance_updates |-> <<>>, j |-> 0, raised |-> FALSE,
     fetch_ok |-> <<>>, delta_response |-> <<>>, inserted |-> 0, updated |-> {},
     owed |-> {}, last |-> [owed |-> {}, sampled |-> {}, dispatched |-> {}]]

ChainBalances == {0, 120}    \* what the chain may report for a wallet

ApiFailures == {"no_member", "rejected", "exception"}

\* the finished passes of all threads for user u
FinishedPasses(u) ==
    UNION {{[update |-> threads[t].balance_updates[k], entry |-> threads[t].log[k]] :
                k \in {k \in DOMAIN threads[t].log :
                        threads[t].balance_updates[k].userId = u}} :
           t \in Threads}

\* a pass for user u is under way or still to come in a running thread
PendingPass(u) ==
    \E t \in Threads :
        /\ threads[t].pc \in {"gate", "member", "patch"}
        /\ \E k \in threads[t].i..Len(threads[t].balance_updates) :
                threads[t].balance_updates[k].userId = u

\* the users whose reconciles all ended in a platform API failure, none being
\* under way, each with the balance that was to be reconciled (history)
Owed ==
    UNION {{[user |-> u, balance |-> p.update.currentBalance] : p \in FinishedPasses(u)} :
            u \in {u \in {users_collection[k]._id : k \in DOMAIN users_collection} :
                    /\ ~PendingPass(u)
                    /\ FinishedPasses(u) # {}
                    /\ \A p \in FinishedPasses(u) : p.entry.outcome \in ApiFailures}}

UsersOf(balance_updates) ==
    {balance_updates[k].userId : k \in DOMAIN balance_updates}

\* the cycle is over: back to the sleep between cycles
EndCycle(m, dispatched) ==
    [m EXCEPT !.pc = "sleeping", !.cycle = @ + 1,
              !.last = [owed |-> m.owed,
                        sampled |-> {[user |-> m.wallets[k]._id,
                                      balance |-> m.fetch_ok[k].balance] :
                                        k \in {k \in DOMAIN m.fetch_ok : m.fetch_ok[k].ok}},
                        dispatched |-> dispatched]]

\* monitor_cycle up to the first fetch: get_linked_wallets, which returns []
\* on an exception; the clock has moved by the sleep between two cycles
BeginCycle ==
    /\ mon.pc = "sleeping"
    /\ mon.cycle < MaxCycles
    /\ \E listed \in BOOLEAN :
        LET wallets == IF listed THEN users_collection ELSE <<>>
            begun == [mon EXCEPT !.wallets = wallets, !.k = 1, !.j = 0,
                                 !.balance_updates = <<>>,
                                 !.fetch_ok = <<>>, !.delta_response = <<>>,
                                 !.inserted = 0, !.updated = {},
                                 !.batch_start = 0, !.batch_end = 0,
                                 !.awaiting = FALSE,
                                 !.raised = ~listed,
                                 !.owed = Owed]
        IN  /\ now' = now + 1
            /\ mon' = IF wallets = <<>>
                      THEN EndCycle(begun, {})
                      ELSE [begun EXCEPT !.pc = "fetching"]
    /\ UNCHANGED <<storeVars, platformVars, discord_configured, threads, callVars>>

\* monitor_cycle called again and again, the loop around it left aside
StartCycle ==
    /\ BeginCycle
    /\ UNCHANGED scheduler

\* wallets[i:i + self.batch_size], by the place of its last wallet
BatchEnd(i, n) == IF i + batch_size - 1 < n THEN i + batch_size - 1 ELSE n

\* lines 116-123: the next batch is cut and a coroutine object is made for
\* each of its wallets; none of them runs before it is awaited
CreateBatch ==
    /\ mon.pc = "fetching"
    /\ ~mon.awaiting
    /\ mon.batch_end < mon.k
    /\ mon' = [mon EXCEPT !.batch_start = mon.k,
                          !.batch_end = BatchEnd(mon.k, Len(mon.wallets))]
    /\ UNCHANGED <<storeVars, platformVars, discord_configured, now, threads, callVars,
                   scheduler>>

\* line 128, await task: the coroutine of the next wallet of the batch starts
\* and sends its request
AwaitTask ==
    /\ mon.pc = "fetching"
    /\ ~mon.awaiting
    /\ mon.k <= mon.batch_end
    /\ mon' = [mon EXCEPT !.awaiting = TRUE]
    /\ UNCHANGED <<storeVars, platformVars, discord_configured, now, threads, callVars,
                   scheduler>>

\* batch_check_balances, one wallet: the awaited fetch returns, the balances
\* are compared, a delta is recorded; an exception is logged and the loop
\* goes on
FetchWalletWith(responses) ==
    /\ mon.pc = "fetching"
    /\ \E response \in responses :
        LET wallet == mon.wallets[mon.k]
            raised == CompareRaises(wallet)
            current_balance == get_wallet_balance(response)
            previous_balance == LastKnownBalanceOf(wallet)
            changed == ~raised /\ ChangeDetected(current_balance, previous_balance)
            balance_updates ==
                IF changed
                THEN Append(mon.balance_updates,
                            Delta(wallet._id, wallet.discordId, wallet.walletAddress,
                                  previous_balance, current_balance, now))
                ELSE mon.balance_updates
            fetched == [mon EXCEPT !.balance_updates = balance_updates,
                                   !.awaiting = FALSE,
                                   !.raised = @ \/ raised,
                                   !.fetch_ok = Append(@, response),
                                   !.delta_response = IF changed THEN Append(@, response) ELSE @,
                                   !.k = @ + 1]
        IN  mon' = IF ~LoopEnds(mon.k, Len(mon.wallets), raised) THEN fetched
                   ELSE IF balance_updates # <<>> THEN [fetched EXCEPT !.pc = "insert"]
                   ELSE EndCycle(fetched, {})
    /\ UNCHANGED <<storeVars, platformVars, discord_configured, now, threads, callVars, scheduler>>

\* one wallet of a cycle, the cutting into batches left aside
FetchWallet ==
    FetchWalletWith({FetchOk(b) : b \in ChainBalances} \cup {FetchFailed})

\* mutant of insert_many: the documents are put before the stored ones
insert_many_in_front(collection, documents, stored) ==
    SubSeq(documents, 1, stored) \o collection

\* insert_many (ordered): the first stored documents are added, in their
\* order, after the documents of the collection
insert_many(collection, documents, stored) ==
    collection \o SubSeq(documents, 1, stored)

\* save_balance_history: insert_many stores the documents in order and raises
\* at the first one it cannot store
SaveInsert ==
    /\ mon.pc = "insert"
    /\ \E stored \in 0..Len(mon.balance_updates) :
        /\ balance_history_collection' =
                insert_many(balance_history_collection, mon.balance_updates, stored)
        /\ mon' = IF stored = Len(mon.balance_updates)
                  THEN [mon EXCEPT !.inserted = stored, !.pc = "update", !.j = 1]
                  ELSE [mon EXCEPT !.inserted = stored, !.pc = "schedule",
                                   !.raised = TRUE]
    /\ UNCHANGED <<roles_collection, blocked_role_assignments, users_collection,
                   platformVars, discord_configured, now, threads, callVars, scheduler>>

\* save_balance_history: one update_one of the loop; an exception ends the loop
SaveUpdate ==
    /\ mon.pc = "update"
    /\ \E update_ok \in BOOLEAN :
        LET update == mon.balance_updates[mon.j]
            moved == IF update_ok /\ mon.j < Len(mon.balance_updates)
                     THEN [mon EXCEPT !.j = @ + 1]
                     ELSE [mon EXCEPT !.pc = "schedule"]
        IN  IF update_ok
            THEN /\ users_collection' = update_one(users_collection, update)
                 /\ mon' = [moved EXCEPT !.updated = @ \cup {mon.j}]
            ELSE /\ UNCHANGED users_collection
                 /\ mon' = [moved EXCEPT !.raised = TRUE]
    /\ UNCHANGED <<roles_collection, balance_history_collection, blocked_role_assignments,
                   platformVars, discord_configured, now, threads, callVars, scheduler>>

\* mutant of AwaitsRoleUpdate: schedule_role_update joins the thread it started
AwaitsRoleUpdate_join(th) == th.pc # "done"

\* thread.start() of line 340 returns once the thread is started, and nothing
\* joins the thread
AwaitsRoleUpdate(th) == FALSE

\* a thread object is at hand: none started yet, or one whose run has ended
FreeThread(t) ==
    /\ threads[t].pc \in {"idle", "done"}
    /\ \A other \in Threads : threads[other].pc = "idle" => threads[t].pc = "idle"

\* schedule_role_update: a new thread gets the cycle's deltas; the cycle ends
Schedule ==
    /\ mon.pc = "schedule"
    /\ \E t \in Threads :
        /\ FreeThread(t)
        /\ StartRoleUpdate(t, mon.balance_updates)
        /\ ~AwaitsRoleUpdate(threads'[t])
    /\ mon' = EndCycle(mon, UsersOf(mon.balance_updates))
    /\ UNCHANGED <<storeVars, platformVars, discord_configured, now, callVars, scheduler>>

----------------------------------------------------------------------------
(* The scheduler: start_monitoring, stop_monitoring, _run_monitor_loop *)

interval_seconds == 30       \* for _ in range(30): ... time.sleep(1)
backoff_seconds == 5         \* time.sleep(5) of the loop's except clause

\* __init__: running = False, monitor_thread = None.  at is the position of the
\* loop thread: "none" (no thread), "connect", "while" (at the loop test),
\* "body" (in monitor_cycle, or in the sleep after it once mon.pc is
\* "sleeping"), "exited".  slept counts the time.sleep(1) calls of the current
\* sleep.  History: started counts the loop threads started, ignored tells
\* that a start_monitoring call found the monitor running, cycled that the
\* loop thread has been through a cycle.
\* no second loop thread: other holds the position and, once there is one, the
\* seconds slept and the cycle state of a loop thread that is alive beside the
\* one the actions step
NoLoop == [at |-> "none"]

StoppedScheduler ==
    [running |-> FALSE, monitor_thread |-> FALSE, at |-> "none", slept |-> 0,
     started |-> 0, ignored |-> FALSE, cycled |-> FALSE, other |-> NoLoop]

\* the loop thread in the body of its loop, for the specifications that look
\* at monitor_cycle only
LoopingScheduler ==
    [running |-> TRUE, monitor_thread |-> TRUE, at |-> "body", slept |-> 0,
     started |-> 1, ignored |-> FALSE, cycled |-> FALSE, other |-> NoLoop]

\* mutant of AlreadyRunning: start_monitoring does not look at running
AlreadyRunning_never(running) == FALSE

\* if self.running: ... return
AlreadyRunning(running) == running

\* start_monitoring; the call that finds running false while the loop thread
\* of an earlier start is still alive is RestartMonitoring
StartMonitoring ==
    /\ IF AlreadyRunning(scheduler.running)
       THEN scheduler' = [scheduler EXCEPT !.ignored = TRUE]
       ELSE /\ scheduler.at \in {"none", "exited"}
            /\ scheduler.started < MaxStarts
            /\ scheduler' = [scheduler EXCEPT !.running = TRUE,
                                              !.monitor_thread = TRUE,
                                              !.at = "connect", !.slept = 0,
                                              !.started = @ + 1, !.cycled = FALSE]
    /\ UNCHANGED <<storeVars, mon, platformVars, discord_configured, now, threads, callVars>>

\* stop_monitoring: join(timeout=5) returns whether or not the thread has ended
StopMonitoring ==
    /\ scheduler.started > 0
    /\ scheduler' = [scheduler EXCEPT !.running = FALSE]
    /\ UNCHANGED <<storeVars, mon, platformVars, discord_configured, now, threads, callVars>>

\* _run_monitor_loop up to the loop: connect_db raises what it cannot connect
\* to, and the finally clause ends the thread
LoopConnect ==
    /\ scheduler.at = "connect"
    /\ \E connected \in BOOLEAN :
            scheduler' = [scheduler EXCEPT !.at = IF connected THEN "while" ELSE "exited"]
    /\ UNCHANGED <<storeVars, mon, platformVars, discord_configured, now, threads, callVars>>

\* while self.running: the next cycle begins, or the loop is left
LoopWhile ==
    /\ scheduler.at = "while"
    /\ IF scheduler.running
       THEN /\ BeginCycle
            /\ scheduler' = [scheduler EXCEPT !.at = "body", !.slept = 0, !.cycled = TRUE]
       ELSE /\ scheduler' = [scheduler EXCEPT !.at = "exited"]
            /\ UNCHANGED <<storeVars, mon, platformVars, discord_configured, now,
                           threads, callVars>>

\* the seconds slept after monitor_cycle has returned: monitor_cycle catches
\* every exception itself (line 375), so the for loop of line 412 always
\* follows line 409 and the except clause of line 419 is not reached
cycle_wait(raised) == interval_seconds

\* mutant of SleepBreaks: the sleep is not cut short
SleepBreaks_never(running) == FALSE

\* if not self.running: break
SleepBreaks(running) == ~running

\* one round of the for loop after the cycle: the test of running, then
\* time.sleep(1); the loop test follows the last round
LoopSleep ==
    /\ scheduler.at = "body"
    /\ mon.pc = "sleeping"
    /\ scheduler' =
            IF scheduler.slept >= cycle_wait(mon.raised) \/ SleepBreaks(scheduler.running)
            THEN [scheduler EXCEPT !.at = "while"]
            ELSE [scheduler EXCEPT !.slept = @ + 1]
    /\ UNCHANGED <<storeVars, mon, platformVars, discord_configured, now, threads, callVars>>

----------------------------------------------------------------------------
(* Specification of the role resolver alone: any catalog, any balance *)

CallRolesForBalance ==
    /\ call_state = "ready"
    /\ \E find \in {FindOk(roles_collection), FindError} :
        /\ call_find' = find
        /\ call_result' = get_roles_for_balance(call_balance, find)
    /\ call_state' = "returned"
    /\ UNCHANGED <<storeVars, mon, platformVars, discord_configured, now, threads,
                   call_balance, call_input, call_output, scheduler>>

ParkedCall ==
    /\ call_balance = 0
    /\ call_find = FindError
    /\ call_result = <<>>
    /\ call_state = "parked"
    /\ call_input = <<>>
    /\ call_output = <<>>

ParkedMonitor ==
    /\ users_collection = <<>>
    /\ mon = StoppedMonitor
    /\ scheduler = StoppedScheduler

ParkedReconcile ==
    /\ balance_history_collection = <<>>
    /\ blocked_role_assignments = <<>>
    /\ member_roles = [m \in Members |-> {}]
    /\ last_write = [m \in Members |-> NoWrite]
    /\ discord_configured = TRUE
    /\ now = 0
    /\ threads = [t \in Threads |-> IdleThread]
    /\ ParkedMonitor

InitRoles ==
    /\ roles_collection \in SeqsUpTo(RoleDocs, MaxRoles)
    /\ call_balance \in -1..MaxBalance
    /\ call_find = FindError
    /\ call_result = <<>>
    /\ call_state = "ready"
    /\ call_input = <<>>
    /\ call_output = <<>>
    /\ ParkedReconcile

NextRoles == CallRolesForBalance

SpecRoles == InitRoles /\ [][NextRoles]_vars

----------------------------------------------------------------------------
(* Specification of the balance fetch alone: any reply, any last known balance *)

HttpStatuses == {200, 404, 500}
Denoms == {Denom(a * MicroPerUnit) : a \in 0..MaxBalance}
              \cup {DenomNoAmount, DenomUnparseable}
HttpReplies ==
    {HttpReply(status, balances) :
        status \in HttpStatuses, balances \in SeqsUpTo(Denoms, MaxDenoms)}
    \cup {HttpNoJson, HttpTimeout, HttpException}

\* lines 128-132: await the fetch, read the last known balance, compare
CallGetWalletBalance ==
    /\ call_state = "ready"
    /\ LET current_balance == get_wallet_balance(call_input.response)
       IN  call_output' =
                [current_balance |-> current_balance,
                 changed |-> ChangeDetected(current_balance, call_input.previous_balance)]
    /\ call_state' = "returned"
    /\ UNCHANGED <<storeVars, mon, platformVars, discord_configured, now, threads,
                   call_balance, call_find, call_result, call_input, scheduler>>

InitFetch ==
    /\ roles_collection = <<>>
    /\ call_balance = 0
    /\ call_find = FindError
    /\ call_result = <<>>
    /\ call_state = "ready"
    /\ \E response \in HttpReplies, previous_balance \in 0..MaxBalance :
            call_input = [response |-> response, previous_balance |-> previous_balance]
    /\ call_output = <<>>
    /\ ParkedReconcile

NextFetch == CallGetWalletBalance

SpecFetch == InitFetch /\ [][NextFetch]_vars

----------------------------------------------------------------------------
(* Specification of the validator alone: any age answer, any stored history *)

StartTime == 2 * volatility_window_minutes
WindowStart == StartTime - volatility_window_minutes

\* a BalanceRecord as save_balance_history stores it
HistoryRecord(wallet, balance, time) == Delta("u1", "m1", wallet, 0, balance, time)

\* stored samples: of wallet "w1" at the very start of the window, one of "w1"
\* just before the window, one of another wallet
HistoryRecords ==
    {HistoryRecord("w1", b, WindowStart) : b \in {0, 100, 105, 140}}
    \cup {HistoryRecord("w1", 100, WindowStart - 1), HistoryRecord("w2", 100, WindowStart)}

\* records are stamped with utcnow() and inserted by the one monitor loop
InTimestampOrder(history) ==
    \A i, j \in DOMAIN history : i < j => history[i].timestamp <= history[j].timestamp

ValidatorHistories ==
    {history \in SeqsUpTo(HistoryRecords, MaxHistory) : InTimestampOrder(history)}

ValidatorBalances == {0, 100, 108, 160, 200}

\* unavailable in each way, no history, three days, around the minimum age
ValidatorAges ==
    {AgeHttpError, AgeNoTxs, AgeNoTimestamp, AgeException}
    \cup {AgeOf(h) : h \in {3 * HoursPerDay, min_wallet_age_days * HoursPerDay - 1,
                             min_wallet_age_days * HoursPerDay,
                             min_wallet_age_days * HoursPerDay + 1}}

CallValidate ==
    /\ call_state = "ready"
    /\ call_output' =
            validate_wallet_for_role_assignment_raising(
                call_input.age_resp,
                IF call_input.find_ok THEN FindOk(balance_history_collection) ELSE FindError,
                call_input.wallet_address, call_input.current_balance, now,
                call_input.error_at)
    /\ call_state' = "returned"
    /\ UNCHANGED <<storeVars, mon, platformVars, discord_configured, now, threads,
                   call_balance, call_find, call_result, call_input, scheduler>>

InitValidator ==
    /\ roles_collection = <<>>
    /\ balance_history_collection \in ValidatorHistories
    /\ blocked_role_assignments = <<>>
    /\ member_roles = [m \in Members |-> {}]
    /\ last_write = [m \in Members |-> NoWrite]
    /\ discord_configured = TRUE
    /\ now = StartTime
    /\ threads = [t \in Threads |-> IdleThread]
    /\ ParkedMonitor
    /\ call_balance = 0
    /\ call_find = FindError
    /\ call_result = <<>>
    /\ call_state = "ready"
    /\ \E age_resp \in ValidatorAges, find_ok \in BOOLEAN,
          current_balance \in ValidatorBalances, error_at \in ErrorPoints :
            call_input = [age_resp |-> age_resp, find_ok |-> find_ok,
                          wallet_address |-> "w1", current_balance |-> current_balance,
                          error_at |-> error_at]
    /\ call_output = <<>>

NextValidator == CallValidate

SpecValidator == InitValidator /\ [][NextValidator]_vars

----------------------------------------------------------------------------
(* Specification of the executor: role-update threads given arbitrary deltas *)

\* the catalog of the end-to-end example; the platform role "X" is in no catalog
ExampleCatalog == <<HolderDoc("H"), AmountDoc("A1", 50), AmountDoc("A2", 100)>>

DeltaBalances == {0, 60, 120}

\* two recent samples of 60 for wallet "w1": a jump to 120 is then volatile
SteadyHistory ==
    <<Delta("u1", "m1", "w1", 0, 60, StartTime - 2),
      Delta("u1", "m1", "w1", 60, 60, StartTime - 1)>>
ReconcileHistories == {<<>>, SteadyHistory}

ReconcileDeltas ==
    {Delta("u1", "m1", "w1", 0, b, StartTime) : b \in DeltaBalances}
    \cup {Delta("u1", "m1", NoAddress, 0, 120, StartTime)}

\* what member "m1" holds at the start: the example's holder role, or both
\* tiers beside the role "X" no catalog lists
HeldRoles == {{"H"}, {"A1", "A2", "X"}}

ReconcileInputs == UNION {[1..k -> ReconcileDeltas] : k \in 1..MaxDeltas}

\* threads are interchangeable: "t2" is started only once "t1" has been
Dispatch(t) ==
    /\ t = "t2" => threads["t1"].pc # "idle"
    /\ threads[t].pc = "idle"
    /\ \E balance_updates \in ReconcileInputs :
        /\ Len(balance_updates) + Len(threads["t1"].balance_updates)
                + Len(threads["t2"].balance_updates) <= MaxDeltas
        /\ StartRoleUpdate(t, balance_updates)
    /\ UNCHANGED <<storeVars, mon, platformVars, discord_configured, now, callVars, scheduler>>

InitReconcile ==
    /\ roles_collection = ExampleCatalog
    /\ balance_history_collection \in ReconcileHistories
    /\ blocked_role_assignments = <<>>
    /\ \E held \in HeldRoles :
            member_roles = [m \in Members |-> IF m = "m1" THEN held ELSE {}]
    /\ last_write = [m \in Members |-> NoWrite]
    /\ discord_configured \in BOOLEAN
    /\ now = StartTime
    /\ threads = [t \in Threads |-> IdleThread]
    /\ ParkedCall
    /\ ParkedMonitor

NextReconcile ==
    \E t \in Threads : Dispatch(t) \/ Gate(t) \/ GetMember(t) \/ PatchMember(t)

SpecReconcile == InitReconcile /\ [][NextReconcile]_vars

----------------------------------------------------------------------------
(* Specification of the monitor: poll cycles that dispatch role-update threads *)

InitMonitor ==
    /\ roles_collection = ExampleCatalog
    /\ balance_history_collection = <<>>
    /\ blocked_role_assignments = <<>>
    /\ users_collection = <<UserDoc("u1", "m1", "w1")>>
    /\ mon = StoppedMonitor
    /\ scheduler = LoopingScheduler
    /\ member_roles \in {[m \in Members |-> {}],
                         [m \in Members |-> IF m = "m1" THEN {"H", "A2", "X"} ELSE {}]}
    /\ last_write = [m \in Members |-> NoWrite]
    /\ discord_configured = TRUE
    /\ now = StartTime
    /\ threads = [t \in Threads |-> IdleThread]
    /\ ParkedCall

NextMonitor ==
    \/ StartCycle
    \/ FetchWallet
    \/ SaveInsert
    \/ SaveUpdate
    \/ Schedule
    \/ \E t \in Threads : Gate(t) \/ GetMember(t) \/ PatchMember(t)

SpecMonitor == InitMonitor /\ [][NextMonitor]_vars

----------------------------------------------------------------------------
(* Specification of the poller: cycles over several wallets, no platform token *)

\* linked accounts: never sampled, last known with 120, lastKnownBalance null
FreshUser == UserDoc("u1", "m1", "w1")
KnownUser ==
    [_id |-> "u2", discordId |-> "m2", walletAddress |-> "w2",
     lastKnownBalance |-> 120, lastBalanceCheck |-> 0]
NullUser ==
    [_id |-> "u3", discordId |-> "m2", walletAddress |-> "w3",
     lastKnownBalance |-> NullBalance, lastBalanceCheck |-> 0]
PollUsers ==
    {<<NullUser, FreshUser>>, <<FreshUser, KnownUser>>, <<KnownUser, NullUser, FreshUser>>}

InitPoll ==
    /\ roles_collection = ExampleCatalog
    /\ balance_history_collection = <<>>
    /\ blocked_role_assignments = <<>>
    /\ users_collection \in PollUsers
    /\ mon = StoppedMonitor
    /\ scheduler = LoopingScheduler
    /\ member_roles = [m \in Members |-> {}]
    /\ last_write = [m \in Members |-> NoWrite]
    /\ discord_configured = FALSE
    /\ now = StartTime
    /\ threads = [t \in Threads |-> IdleThread]
    /\ ParkedCall

NextPoll ==
    \/ StartCycle
    \/ FetchWallet
    \/ SaveInsert
    \/ SaveUpdate
    \/ Schedule

SpecPoll == InitPoll /\ [][NextPoll]_vars

----------------------------------------------------------------------------
(* Specification of the scheduler: the loop thread around the poll cycles *)

SchedulerUsers == {<<FreshUser>>, <<NullUser>>}

InitScheduler ==
    /\ roles_collection = ExampleCatalog
    /\ balance_history_collection = <<>>
    /\ blocked_role_assignments = <<>>
    /\ users_collection \in SchedulerUsers
    /\ mon = StoppedMonitor
    /\ scheduler = StoppedScheduler
    /\ member_roles = [m \in Members |-> {}]
    /\ last_write = [m \in Members |-> NoWrite]
    /\ discord_configured = FALSE
    /\ now = StartTime
    /\ threads = [t \in Threads |-> IdleThread]
    /\ ParkedCall

\* the steps of the loop thread
LoopStep ==
    \/ LoopConnect
    \/ LoopWhile
    \/ LoopSleep
    \/ FetchWallet
    \/ SaveInsert
    \/ SaveUpdate
    \/ Schedule

NextScheduler ==
    \/ StartMonitoring
    \/ StopMonitoring
    \/ LoopStep

\* the loop thread, once started, is scheduled again and again
SpecScheduler == InitScheduler /\ [][NextScheduler]_vars /\ WF_vars(LoopStep)

----------------------------------------------------------------------------
(* Specification of the restart: start_monitoring while a loop thread is alive *)

LoopAliveAt(at) == at \in {"connect", "while", "body"}

\* a loop thread is in monitor_cycle
InCycle(at, m) == at = "body" /\ m.pc # "sleeping"

\* start_monitoring after a stop_monitoring whose join(timeout=5) returned
\* while the loop thread was in a cycle: running is false, so a new thread is
\* started (lines 384-386); the thread of the earlier start runs on beside it
RestartMonitoring ==
    /\ ~AlreadyRunning(scheduler.running)
    /\ InCycle(scheduler.at, mon)
    /\ ~LoopAliveAt(scheduler.other.at)
    /\ scheduler.started < MaxStarts
    /\ scheduler' = [scheduler EXCEPT !.running = TRUE,
                                      !.monitor_thread = TRUE,
                                      !.at = "connect", !.slept = 0,
                                      !.started = @ + 1, !.cycled = FALSE,
                                      !.other = [at |-> scheduler.at,
                                                 slept |-> scheduler.slept,
                                                 mon |-> mon]]
    /\ mon' = StoppedMonitor
    /\ UNCHANGED <<storeVars, platformVars, discord_configured, now, threads, callVars>>

\* two live loop threads run side by side: the steps of the loop thread are
\* those of either one, the other one waiting with its position and its
\* cycle state.  The one-second rounds of a sleep are taken in one run: the
\* turn passes before the first round of a sleep, not in the middle of it
SwitchLoop ==
    /\ LoopAliveAt(scheduler.other.at)
    /\ scheduler.at = "body" /\ mon.pc = "sleeping" => scheduler.slept = 0
    /\ scheduler' = [scheduler EXCEPT !.at = scheduler.other.at,
                                      !.slept = scheduler.other.slept,
                                      !.other = [at |-> scheduler.at,
                                                 slept |-> scheduler.slept,
                                                 mon |-> mon]]
    /\ mon' = scheduler.other.mon
    /\ UNCHANGED <<storeVars, platformVars, discord_configured, now, threads, callVars>>

\* the chain reports what the link records: the cycle finds no delta
FetchUnchanged == FetchWalletWith({FetchOk(KnownUser.lastKnownBalance)})

\* one linked wallet whose balance does not change
InitRestart ==
    /\ roles_collection = ExampleCatalog
    /\ balance_history_collection = <<>>
    /\ blocked_role_assignments = <<>>
    /\ users_collection = <<KnownUser>>
    /\ mon = StoppedMonitor
    /\ scheduler = StoppedScheduler
    /\ member_roles = [m \in Members |-> {}]
    /\ last_write = [m \in Members |-> NoWrite]
    /\ discord_configured = FALSE
    /\ now = StartTime
    /\ threads = [t \in Threads |-> IdleThread]
    /\ ParkedCall

NextRestart ==
    \/ StartMonitoring
    \/ RestartMonitoring
    \/ StopMonitoring
    \/ SwitchLoop
    \/ LoopConnect
    \/ LoopWhile
    \/ LoopSleep
    \/ FetchUnchanged

SpecRestart == InitRestart /\ [][NextRestart]_vars

----------------------------------------------------------------------------
(* Specification of the batches: one poll cycle over up to MaxWallets wallets *)

\* linked accounts never sampled, told apart by a number
BatchUsers(n) == [i \in 1..n |-> UserDoc(i, "m1", i)]

\* the awaited fetch of the batch returns
TaskReturns ==
    /\ mon.awaiting
    /\ FetchWalletWith({FetchOk(120)})

InitBatch ==
    /\ roles_collection = ExampleCatalog
    /\ balance_history_collection = <<>>
    /\ blocked_role_assignments = <<>>
    /\ \E n \in 1..MaxWallets : users_collection = BatchUsers(n)
    /\ mon = StoppedMonitor
    /\ scheduler = LoopingScheduler
    /\ member_roles = [m \in Members |-> {}]
    /\ last_write = [m \in Members |-> NoWrite]
    /\ discord_configured = FALSE
    /\ now = StartTime
    /\ threads = [t \in Threads |-> IdleThread]
    /\ ParkedCall

NextBatch ==
    \/ StartCycle
    \/ CreateBatch
    \/ AwaitTask
    \/ TaskReturns
    \/ SaveInsert
    \/ SaveUpdate
    \/ Schedule

SpecBatch == InitBatch /\ [][NextBatch]_vars

----------------------------------------------------------------------------
(* Specification of the request handler assign_permanent_roles *)

\* the roles of the guild: those of the catalog and "X", which no catalog lists
GuildRoles == {"H", "A1", "A2", "X"}

\* role ids a request may list: two of the guild, one the guild does not have
RequestRoleIds == SUBSET {"H", "A2", "Z"}

\* the reply to the balance GET of lines 207-219
BalanceReplies ==
    {[kind |-> "200", balance |-> b] : b \in ChainBalances}
    \cup {[kind |-> "not200", balance |-> 0], [kind |-> "exception", balance |-> 0]}

\* the document of lines 231-239
blocked_request(request, current_balance, validation_result, clock) ==
    [timestamp |-> clock,
     discordId |-> request.discord_id,
     walletAddress |-> request.wallet_address,
     currentBalance |-> current_balance,
     requestedRoles |-> request.role_ids,
     blocked_reasons |-> validation_result.blocked_reasons,
     checks_performed |-> validation_result.checks_performed]

\* lines 204-263: the anti-gaming check of the handler.  The HTTPException of
\* line 250 is raised inside the try block of line 206, whose clause
\* "except Exception" (line 259) catches it: the handler logs the error and
\* goes on to the assignment.  Returns what the check saw and whether the
\* handler goes on.
anti_gaming_check(request, reply, validation_result) ==
    IF request.wallet_address = NoAddress \/ reply.kind # "200"
    THEN [validated |-> FALSE, is_valid |-> TRUE, proceeds |-> TRUE]
    ELSE [validated |-> TRUE, is_valid |-> validation_result.is_valid, proceeds |-> TRUE]

\* the answer of the handler: its status code and the role names it lists
Answer(status_code, assigned_roles, failed_roles, check) ==
    [status_code |-> status_code, assigned_roles |-> assigned_roles,
     failed_roles |-> failed_roles,
     validated |-> check.validated, is_valid |-> check.is_valid]

\* assign_permanent_roles, the whole handler: every HTTPException raised in
\* its try block is caught by the clause of line 418 and answered with 500
AssignPermanentRoles ==
    /\ call_state = "ready"
    /\ call_state' = "returned"
    /\ \E bot_ready \in BOOLEAN, reply \in BalanceReplies, age_resp \in AgeResponses,
          insert_ok \in BOOLEAN, member_found \in BOOLEAN, db_ok \in BOOLEAN,
          refused \in SUBSET GuildRoles :
        LET request == call_input
            validation_result ==
                validate_wallet_for_role_assignment(
                    age_resp, FindOk(balance_history_collection),
                    request.wallet_address, reply.balance, now)
            check == anti_gaming_check(request, reply, validation_result)
            held == member_roles[request.discord_id]
            known == request.role_ids \cap GuildRoles
            assigned_roles == {r \in known : r \in held \/ r \notin refused}
            failed_roles == request.role_ids \ assigned_roles
            db_role_ids == IF db_ok THEN RoleIdSet(roles_collection) ELSE {}
            removed == {r \in GuildRoles \ request.role_ids :
                            r \in held /\ r \in db_role_ids /\ r \notin refused}
        IN  IF ~bot_ready
            THEN /\ call_output' = Answer(500, {}, {}, [validated |-> FALSE, is_valid |-> TRUE])
                 /\ UNCHANGED <<member_roles, blocked_role_assignments>>
            ELSE /\ blocked_role_assignments' =
                        IF check.validated /\ ~check.is_valid /\ insert_ok
                        THEN Append(blocked_role_assignments,
                                    blocked_request(request, reply.balance,
                                                    validation_result, now))
                        ELSE blocked_role_assignments
                 /\ IF ~check.proceeds
                    THEN /\ call_output' = Answer(403, {}, {}, check)
                         /\ UNCHANGED member_roles
                    ELSE IF ~member_found
                    THEN /\ call_output' = Answer(500, {}, {}, check)
                         /\ UNCHANGED member_roles
                    ELSE /\ call_output' = Answer(200, assigned_roles, failed_roles, check)
                         /\ member_roles' =
                                [member_roles EXCEPT ![request.discord_id] =
                                    (held \cup assigned_roles) \ removed]
    /\ UNCHANGED <<roles_collection, balance_history_collection, users_collection, mon,
                   last_write, discord_configured, now, threads, call_balance, call_find,
                   call_result, call_input, scheduler>>

InitAssign ==
    /\ roles_collection = ExampleCatalog
    /\ balance_history_collection = <<>>
    /\ blocked_role_assignments = <<>>
    /\ \E held \in HeldRoles :
            member_roles = [m \in Members |-> IF m = "m1" THEN held ELSE {}]
    /\ last_write = [m \in Members |-> NoWrite]
    /\ discord_configured = TRUE
    /\ now = StartTime
    /\ threads = [t \in Threads |-> IdleThread]
    /\ ParkedMonitor
    /\ call_balance = 0
    /\ call_find = FindError
    /\ call_result = <<>>
    /\ call_state = "ready"
    /\ \E wallet_address \in {"w1", NoAddress}, role_ids \in RequestRoleIds :
            call_input = [discord_id |-> "m1", wallet_address |-> wallet_address,
                          role_ids |-> role_ids, held |-> member_roles["m1"]]
    /\ call_output = <<>>

NextAssign == AssignPermanentRoles

SpecAssign == InitAssign /\ [][NextAssign]_vars

----------------------------------------------------------------------------
(* Specification of the two role resolvers side by side *)

\* the query of RoleDatabase.get_roles_for_balance: {'type': 'holder'}, or
\* {'type': 'amount', 'amountThreshold': {'$lte': balance}}, which a document
\* without the field does not match
MatchesQuery(role, balance) ==
    \/ role.type = "holder"
    \/ /\ role.type = "amount"
       /\ "amountThreshold" \in DOMAIN role
       /\ role.amountThreshold <= balance

\* RoleDatabase.get_roles_for_balance: every document the query matches, in
\* the order of the collection; an exception of find is raised again
RoleDatabase_get_roles_for_balance(balance, find) ==
    IF balance <= 0 THEN [raised |-> FALSE, roles |-> <<>>]
    ELSE IF ~find.ok THEN [raised |-> TRUE, roles |-> <<>>]
    ELSE [raised |-> FALSE,
          roles |-> SelectSeq(find.docs, LAMBDA role : MatchesQuery(role, balance))]

\* both resolvers are called for the same balance on the same catalog
CallBothResolvers ==
    /\ call_state = "ready"
    /\ \E find \in {FindOk(roles_collection), FindError} :
        /\ call_find' = find
        /\ call_result' = get_roles_for_balance(call_balance, find)
        /\ call_output' = RoleDatabase_get_roles_for_balance(call_balance, find)
    /\ call_state' = "returned"
    /\ UNCHANGED <<storeVars, mon, platformVars, discord_configured, now, threads,
                   call_balance, call_input, scheduler>>

InitResolvers == InitRoles

NextResolvers == CallBothResolvers

SpecResolvers == InitResolvers /\ [][NextResolvers]_vars

----------------------------------------------------------------------------
(* Properties *)

ManagedIds == RoleIdSet(roles_collection)

\* roles_for_balance over the catalog as stored
QualifiedIds(balance) ==
    RoleIdSet(get_roles_for_balance(balance, FindOk(roles_collection)))

\* every pass of a thread over its deltas: the finished ones and the one under way
PassesOf(t) ==
    LET th == threads[t]
    IN  {[update |-> th.balance_updates[k], entry |-> th.log[k]] :
            k \in DOMAIN th.log}
        \cup (IF th.pc \in {"gate", "member", "patch"}
              THEN {[update |-> th.balance_updates[th.i], entry |-> th.entry]}
              ELSE {})
AllPasses == UNION {PassesOf(t) : t \in Threads}

C1_PayloadKeepsUnmanaged ==
    \A p \in AllPasses :
        p.entry.diffed =>
            /\ p.entry.current_roles \ ManagedIds \subseteq p.entry.new_roles
            /\ p.entry.new_roles \ p.entry.current_roles \subseteq ManagedIds
\* C1: roles outside the catalog are never touched: every role set a reconcile
\* writes keeps each non-catalog role the member held and adds only catalog
\* roles, and no step of any run, overlapping or not, changes a member's
\* non-catalog roles.
C1_UnmanagedRolesUntouched ==
    /\ []C1_PayloadKeepsUnmanaged
    /\ [][\A m \in Members :
            member_roles'[m] \ ManagedIds = member_roles[m] \ ManagedIds]_vars

\* C1 witness: an accepted update changed the managed roles of a member who
\* holds the non-catalog role "X"
C1_Witness ==
    \E p \in AllPasses :
        /\ p.entry.outcome = "applied"
        /\ "X" \in p.entry.current_roles
        /\ p.entry.roles_to_remove # {}
        /\ "X" \in member_roles[p.update.discordId]

\* C2: whenever a reconcile computes its diff, to_add = qualified \ (current
\* /\ managed), to_remove = (current /\ managed) \ qualified, with managed the
\* catalog's role ids and qualified the roles of the current balance, and the
\* set to write is (current \ to_remove) \/ to_add.  Balance 120 over the
\* example catalog with managed roles {H} held gives to_add = {A2}, to_remove = {}.
C2_DiffFormula ==
    \A p \in AllPasses :
        p.entry.diffed =>
            LET e == p.entry
                held == e.current_roles \cap ManagedIds
            IN  /\ e.catalog_ok => e.qualified_role_ids = QualifiedIds(p.update.currentBalance)
                /\ e.roles_to_add = {r \in e.qualified_role_ids : r \notin held}
                /\ e.roles_to_remove = {r \in held : r \notin e.qualified_role_ids}
                /\ e.new_roles =
                      {r \in PlatformRoles :
                          \/ r \in e.current_roles /\ r \notin e.roles_to_remove
                          \/ r \in e.roles_to_add}
                /\ ( /\ roles_collection = ExampleCatalog
                     /\ p.update.currentBalance = 120
                     /\ e.catalog_ok
                     /\ held = {"H"} )
                   => e.roles_to_add = {"A2"} /\ e.roles_to_remove = {}

\* C2 witness: the end-to-end example
C2_Witness ==
    \E p \in AllPasses :
        /\ p.entry.diffed /\ p.entry.catalog_ok
        /\ roles_collection = ExampleCatalog
        /\ p.update.currentBalance = 120
        /\ p.update.previousBalance = 0
        /\ p.entry.current_roles \cap ManagedIds = {"H"}
        /\ p.entry.roles_to_add = {"A2"}
        /\ p.entry.qualified_role_ids = {"H", "A2"}

\* C3: for a balance b > 0 and any catalog, get_roles_for_balance returns all
\* holder roles and at most one amount role; when an amount role qualifies
\* (threshold <= b) the one returned has the highest qualifying threshold,
\* the first such in catalog order.
C3_HighestTierOnly ==
    (call_state = "returned" /\ call_find.ok /\ call_balance > 0) =>
        LET catalog == roles_collection
            amounts == SelectSeq(call_result, IsAmount)
            Qualifies(k) ==
                /\ catalog[k].type = "amount"
                /\ AmountThresholdOf(catalog[k]) <= call_balance
            qualifying == {k \in DOMAIN catalog : Qualifies(k)}
        IN  /\ SelectSeq(call_result, IsHolder) = SelectSeq(catalog, IsHolder)
            /\ Len(amounts) <= 1
            /\ Len(call_result) = Len(SelectSeq(catalog, IsHolder)) + Len(amounts)
            /\ (qualifying = {}) <=> (amounts = <<>>)
            /\ qualifying # {} =>
                \E k \in qualifying :
                    /\ amounts[1] = catalog[k]
                    /\ \A j \in qualifying :
                        /\ AmountThresholdOf(catalog[j]) <= AmountThresholdOf(catalog[k])
                        /\ AmountThresholdOf(catalog[j]) = AmountThresholdOf(catalog[k])
                            => k <= j

\* C3 witness: two tiers qualify and the higher one, stored first, is returned
\* together with the holder role
C3_Witness ==
    /\ call_state = "returned" /\ call_find.ok
    /\ call_balance = 2
    /\ roles_collection = <<AmountDoc("A2", 2), HolderDoc("H"), AmountDoc("A1", 1)>>
    /\ call_result = <<HolderDoc("H"), AmountDoc("A2", 2)>>

\* C4: for a balance b <= 0 and any catalog, get_roles_for_balance returns
\* nothing: no holder role and no amount role, even one with threshold 0.
C4_NothingForNonPositive ==
    (call_state = "returned" /\ call_balance <= 0) => call_result = <<>>

\* C4 witness: balance 0 against a catalog holding a holder role and an amount
\* role with threshold 0
C4_Witness ==
    /\ call_state = "returned" /\ call_find.ok
    /\ call_balance = 0
    /\ roles_collection = <<HolderDoc("H"), AmountDoc("A1", 0)>>
    /\ call_result = <<>>

C5_BlockedPassInert ==
    \A p \in AllPasses :
        (p.entry.validated /\ ~p.entry.is_valid) =>
            /\ p.entry.outcome \in {"running", "blocked"}
            /\ ~p.entry.looked_up
            /\ p.entry.patches = 0
C5_BlockedStep(t) ==
    /\ threads[t].pc = "gate"
    /\ Len(threads'[t].log) = Len(threads[t].log) + 1
    /\ threads'[t].log[Len(threads'[t].log)].outcome = "blocked"
\* C5: a delta the validator finds invalid gets no role mutation: the pass ends
\* blocked, reads no member, sends no role-set update, and the step that blocks
\* it leaves every member's roles as they were, whether or not the audit
\* record could be written.
C5_InvalidMeansNoMutation ==
    /\ []C5_BlockedPassInert
    /\ [][\A t \in Threads : C5_BlockedStep(t) => member_roles' = member_roles]_vars

\* C5 witness: a blocked pass whose audit record could not be written, for a
\* member who holds roles the balance does not qualify for
C5_Witness ==
    \E p \in AllPasses :
        /\ p.entry.outcome = "blocked"
        /\ p.update.currentBalance > 0 /\ p.update.walletAddress # NoAddress
        /\ blocked_role_assignments = <<>>
        /\ member_roles[p.update.discordId] \cap ManagedIds
                # QualifiedIds(p.update.currentBalance)

\* C6: idempotence: a reconcile that reads the member after an accepted update
\* made for the same balance (nothing written in between, the catalog read by
\* both) computes to_add = to_remove = {} and sends no role-set update.
C6_SecondReconcileIsNoOp ==
    \A p \in AllPasses :
        ( /\ p.entry.diffed
          /\ p.entry.catalog_ok
          /\ p.entry.seen_write.written
          /\ p.entry.seen_write.catalog_ok
          /\ p.entry.seen_write.balance = p.update.currentBalance )
        => /\ p.entry.roles_to_add = {}
           /\ p.entry.roles_to_remove = {}
           /\ p.entry.patches = 0
           /\ p.entry.outcome \in {"running", "skipped"}

\* C6 witness: a skipped pass that followed an applied one for the same balance
C6_Witness ==
    \E p \in AllPasses :
        /\ p.entry.outcome = "skipped"
        /\ p.entry.seen_write.written
        /\ p.entry.seen_write.balance = p.update.currentBalance
        /\ p.update.currentBalance > 0

C8_BothDone ==
    \A t \in Threads : threads[t].pc = "done" /\ threads[t].log # <<>>
C8_SameTarget(member, balance) ==
    \A p \in AllPasses :
        /\ p.update.discordId = member
        /\ p.update.currentBalance = balance
        /\ p.entry.diffed => p.entry.catalog_ok
\* C8: two reconciles of the same member for the same balance, in any
\* interleaving of their reads and writes, leave the member's managed roles
\* equal to roles_for_balance(balance), as a single one does (the catalog read
\* by both, and at least one of them getting through to its diff and, if it
\* sends an update, having it accepted).
C8_OverlapConverges ==
    \A member \in Members, balance \in DeltaBalances :
        ( /\ C8_BothDone
          /\ C8_SameTarget(member, balance)
          /\ \E p \in AllPasses : p.entry.outcome \in {"applied", "skipped"} )
        => member_roles[member] \cap ManagedIds = QualifiedIds(balance)

\* C8 witness: both read the member before either wrote, both updates accepted
C8_Witness ==
    /\ C8_BothDone
    /\ \E balance \in DeltaBalances : C8_SameTarget("m1", balance)
    /\ \A p \in AllPasses :
        /\ p.entry.outcome = "applied"
        /\ ~p.entry.seen_write.written

\* C7: a wallet whose reconcile ended in a platform API failure (member lookup
\* not 200, update rejected, exception) is reconciled again by the next poll
\* cycle even when its balance has not changed again: every user owed a retry
\* when a cycle began, whom the cycle sampled at the balance that was to be
\* reconciled, is among the users the cycle dispatched.
C7_FailedReconcileRetried ==
    \A o \in mon.last.owed \cap mon.last.sampled : o.user \in mon.last.dispatched

\* C9: when save_balance_history has returned, each delta has both its
\* BalanceRecord stored and its link set to that sample, or neither.
C9_RecordAndLinkTogether ==
    mon.pc = "schedule" =>
        \A k \in DOMAIN mon.balance_updates :
            (k <= mon.inserted) <=> (k \in mon.updated)

LinkChanged(k) ==
    /\ k \in DOMAIN users_collection'
    /\ \/ LastKnownBalanceOf(users_collection'[k]) # LastKnownBalanceOf(users_collection[k])
       \/ ("lastKnownBalance" \in DOMAIN users_collection'[k])
            # ("lastKnownBalance" \in DOMAIN users_collection[k])

\* C10 as stated: lastKnownBalance changes only in the poller's link update and
\* only for a delta whose fetch succeeded.
C10_OnlyAfterSuccessfulFetch ==
    [][\A k \in DOMAIN users_collection :
        LinkChanged(k) => /\ mon.pc = "update"
                          /\ mon.delta_response[mon.j].ok]_vars

\* C10 amended: lastKnownBalance changes only in the poller's link update, for
\* the delta of that user, and only to what get_wallet_balance returned for it
\* in that cycle: the balance fetched, or 0 when the fetch failed (which then
\* replaces a non-zero last known balance by 0).
C10_OnlyToFetchedOrZero ==
    [][\A k \in DOMAIN users_collection :
        LinkChanged(k) =>
            /\ mon.pc = "update"
            /\ mon.balance_updates[mon.j].userId = users_collection[k]._id
            /\ LastKnownBalanceOf(users_collection'[k]) =
                    IF mon.delta_response[mon.j].ok
                    THEN mon.delta_response[mon.j].balance ELSE 0
            /\ ~mon.delta_response[mon.j].ok =>
                    LastKnownBalanceOf(users_collection[k]) # 0]_vars

\* C10 witness: a failed fetch has set a last known balance of 120 to 0
C10_Witness ==
    /\ mon.pc = "schedule"
    /\ 1 \in mon.updated
    /\ ~mon.delta_response[1].ok
    /\ mon.balance_updates[1].previousBalance = 120
    /\ LastKnownBalanceOf(users_collection[1]) = 0
    /\ "lastKnownBalance" \in DOMAIN users_collection[1]

\* the replies get_wallet_balance cannot read a balance from
FetchFailure(response) ==
    \/ response.kind # "status"
    \/ response.status # 200
    \/ \E k \in DOMAIN response.balances : ~response.balances[k].parses

\* C11: get_wallet_balance returns a number for every reply, and for a status
\* that is not 200, a timeout or any exception (a body that is no JSON, an
\* amount that is no number) that number is 0: the value, and the comparison
\* the caller makes with it, are those of a wallet whose balance reply is
\* HTTP 200 with no funds.
C11_ZeroOnFailure ==
    call_state = "returned" =>
        /\ call_output.current_balance \in Nat
        /\ FetchFailure(call_input.response) =>
                /\ call_output.current_balance = 0
                /\ call_output.current_balance = get_wallet_balance(HttpReply(200, <<>>))
                /\ call_output.changed =
                        ChangeDetected(get_wallet_balance(HttpReply(200, <<>>)),
                                       call_input.previous_balance)

\* C11 witness: a reply of HTTP 200 whose second amount is no number, for a
\* wallet last known with a balance, came back as 0 and as a change
C11_Witness ==
    /\ call_state = "returned"
    /\ call_input.response = HttpReply(200, <<Denom(MicroPerUnit), DenomUnparseable>>)
    /\ call_input.previous_balance = 1
    /\ call_output = [current_balance |-> 0, changed |-> TRUE]

\* the deltas of the cycle for the wallet listed at position k
DeltasOf(k) ==
    {j \in DOMAIN mon.balance_updates :
        mon.balance_updates[j].userId = mon.wallets[k]._id}

\* the fetch loop of the cycle begun last is over
FetchLoopOver ==
    \/ mon.pc \in {"insert", "update", "schedule"}
    \/ mon.pc = "sleeping" /\ mon.cycle > 0

\* the wallet at position k was sampled and compared, and has a delta exactly
\* if the sample is further than 0.000001 from its last known balance
ComparedAt(k) ==
    LET wallet == mon.wallets[k]
        current == get_wallet_balance(mon.fetch_ok[k])
        previous == IF "lastKnownBalance" \in DOMAIN wallet
                    THEN wallet.lastKnownBalance ELSE 0
        beyond == \/ (current - previous) * epsilon_den > epsilon_num
                  \/ (previous - current) * epsilon_den > epsilon_num
    IN  /\ beyond <=> DeltasOf(k) # {}
        /\ Cardinality(DeltasOf(k)) <= 1
        /\ \A j \in DeltasOf(k) :
                /\ mon.balance_updates[j].currentBalance = current
                /\ mon.balance_updates[j].previousBalance = previous
                /\ mon.balance_updates[j].timestamp = now

\* nothing of this cycle exists for the user: no record, no thread input
UntouchedAt(k) ==
    LET wallet == mon.wallets[k]
    IN  /\ users_collection[k] = wallet
        /\ \A r \in DOMAIN balance_history_collection :
                ~ ( /\ balance_history_collection[r].userId = wallet._id
                    /\ balance_history_collection[r].timestamp = now )
        /\ wallet._id \notin mon.last.dispatched
        /\ \A t \in Threads : \A i \in DOMAIN threads[t].balance_updates :
                ~ ( /\ threads[t].balance_updates[i].userId = wallet._id
                    /\ threads[t].balance_updates[i].timestamp = now )

\* C12: in a poll cycle a wallet gets a delta iff |current - previous| >
\* 0.000001, previous being the link's lastKnownBalance (0 when never set), and
\* when the cycle is over a wallet without a delta has no BalanceRecord of the
\* cycle, an unchanged link and no reconcile dispatched for it.
C12_DeltaIffChanged ==
    /\ FetchLoopOver =>
            \A k \in DOMAIN mon.fetch_ok :
                ~CompareRaises(mon.wallets[k]) => ComparedAt(k)
    /\ (mon.pc = "sleeping" /\ mon.cycle > 0) =>
            \A k \in DOMAIN mon.wallets : DeltasOf(k) = {} => UntouchedAt(k)

\* C12 witness: a cycle that gave one wallet a delta, a record, a link update
\* and a reconcile, and left alone the wallet sampled at its last known balance
C12_Witness ==
    /\ mon.pc = "sleeping" /\ mon.cycle = 1
    /\ mon.wallets = <<FreshUser, KnownUser>>
    /\ mon.fetch_ok = <<FetchOk(120), FetchOk(120)>>
    /\ DeltasOf(1) # {} /\ DeltasOf(2) = {}
    /\ LastKnownBalanceOf(users_collection[1]) = 120
    /\ mon.last.dispatched = {"u1"}
    /\ Len(balance_history_collection) = 1

\* C13: the exception of one wallet (its stored lastKnownBalance cannot be
\* compared) stops nothing: every other wallet of the cycle, listed before or
\* after it, is sampled and compared and gets its delta, and once insert_many
\* has stored the cycle's deltas each of them is a BalanceRecord.
C13_BatchIsolation ==
    FetchLoopOver =>
        /\ \A k \in DOMAIN mon.wallets :
                ~CompareRaises(mon.wallets[k]) =>
                    k \in DOMAIN mon.fetch_ok /\ ComparedAt(k)
        /\ mon.inserted = Len(mon.balance_updates) =>
                \A j \in DOMAIN mon.balance_updates :
                    \E r \in DOMAIN balance_history_collection :
                        balance_history_collection[r] = mon.balance_updates[j]

\* C13 witness: the wallet listed first raised, the one after it has its delta
\* stored as a BalanceRecord
C13_Witness ==
    /\ mon.pc = "sleeping" /\ mon.cycle = 1
    /\ mon.wallets = <<NullUser, FreshUser>>
    /\ DeltasOf(1) = {} /\ DeltasOf(2) # {}
    /\ mon.inserted = 1
    /\ \E r \in DOMAIN balance_history_collection :
            balance_history_collection[r].userId = "u1"

\* the direct call of the validator has returned
ValidatorReturned == call_state = "returned" /\ "is_valid" \in DOMAIN call_output

\* what the two checks answer on the inputs of the call
AgeAnswer == check_wallet_age(call_input.age_resp)
VolatilityAnswer ==
    check_balance_volatility(
        IF call_input.find_ok THEN FindOk(balance_history_collection) ELSE FindError,
        call_input.wallet_address, call_input.current_balance, now)

\* C14: a validation no exception interrupts runs both checks, whatever the
\* age check said; is_valid is the conjunction of the two verdicts, and
\* blocked_reasons lists exactly the failing checks, age before volatility.
C14_BothChecksRun ==
    (ValidatorReturned /\ call_input.error_at = NoError) =>
        LET result == call_output
            failing ==
                (IF AgeAnswer.valid THEN <<>>
                 ELSE <<[check |-> "Wallet Age", reason |-> AgeAnswer.reason]>>)
                \o (IF VolatilityAnswer.valid THEN <<>>
                    ELSE <<[check |-> "Balance Volatility",
                            reason |-> VolatilityAnswer.reason]>>)
        IN  /\ DOMAIN result.checks_performed = {"wallet_age", "balance_volatility"}
            /\ result.checks_performed.wallet_age = AgeAnswer
            /\ result.checks_performed.balance_volatility = VolatilityAnswer
            /\ result.is_valid = (AgeAnswer.valid /\ VolatilityAnswer.valid)
            /\ result.blocked_reasons = failing
            /\ result.warnings = <<>>

\* C14 witness: both checks failed and both reasons are listed
C14_Witness ==
    /\ ValidatorReturned /\ call_input.error_at = NoError
    /\ ~AgeAnswer.valid /\ ~VolatilityAnswer.valid
    /\ ~call_output.is_valid
    /\ Len(call_output.blocked_reasons) = 2
    /\ call_output.blocked_reasons[1].check = "Wallet Age"
    /\ call_output.blocked_reasons[2].check = "Balance Volatility"

\* C15: a validation that an exception interrupts at the top level returns
\* is_valid = TRUE with a warning, whatever the checks before it had decided.
C15_ErrorMeansValid ==
    (ValidatorReturned /\ call_input.error_at # NoError) =>
        /\ call_output.is_valid
        /\ call_output.warnings # <<>>

\* C16: the age check blocks a wallet whose lookup succeeded with no
\* transaction, and passes whenever the age cannot be verified: a status that
\* is not 200, a first transaction without timestamp, an exception.
C16_AgeGateAsymmetry ==
    (ValidatorReturned /\ "wallet_age" \in DOMAIN call_output.checks_performed) =>
        LET verdict == call_output.checks_performed.wallet_age
            kind == call_input.age_resp.kind
        IN  /\ kind = "no_txs" =>
                    ~verdict.valid /\ verdict.reason.code = "no_transaction_history"
            /\ kind \in {"http_error", "no_timestamp", "exception"} => verdict.valid

\* C16 witness: a wallet without transactions is blocked for that reason alone
C16_Witness ==
    /\ ValidatorReturned /\ call_input.error_at = NoError
    /\ call_input.age_resp = AgeNoTxs
    /\ VolatilityAnswer.valid
    /\ ~call_output.is_valid
    /\ call_output.blocked_reasons =
            <<[check |-> "Wallet Age", reason |-> Reason("no_transaction_history", 0)]>>

\* C17: with the first-transaction time at hand the age check fails iff the
\* age is below the minimum of 7 days: the minimum itself passes, and a wallet
\* 3 days old is blocked with a reason citing 3 days.
C17_AgeThreshold ==
    ( /\ ValidatorReturned
      /\ "wallet_age" \in DOMAIN call_output.checks_performed
      /\ call_input.age_resp.kind = "first_tx" ) =>
        LET verdict == call_output.checks_performed.wallet_age
            age_hours == call_input.age_resp.age_hours
        IN  /\ verdict.valid <=> (age_hours >= min_wallet_age_days * HoursPerDay)
            /\ age_hours = 3 * HoursPerDay =>
                    ~verdict.valid /\ verdict.reason = Reason("wallet_too_new", 3)

\* C17 witness: a wallet exactly 7 days old passed the age check
C17_Witness ==
    /\ ValidatorReturned /\ call_input.error_at = NoError
    /\ call_input.age_resp = AgeOf(min_wallet_age_days * HoursPerDay)
    /\ call_output.checks_performed.wallet_age.valid
    /\ call_output.checks_performed.wallet_age.reason = Reason("wallet_age_verified", 7)

\* the data points of the call: the stored samples of the wallet inside the
\* window, oldest first, then the current balance
DataPoints ==
    LET stored == SelectSeq(balance_history_collection,
                            LAMBDA r : /\ r.walletAddress = call_input.wallet_address
                                       /\ now - r.timestamp <= volatility_window_minutes)
    IN  [k \in 1..Len(stored) |-> stored[k].currentBalance]
        \o <<call_input.current_balance>>

\* the consecutive pairs with a positive prior sample, by the later index
RatedPairs == {i \in 2..Len(DataPoints) : DataPoints[i - 1] > 0}
Rise(i) ==
    IF DataPoints[i] >= DataPoints[i - 1]
    THEN DataPoints[i] - DataPoints[i - 1]
    ELSE DataPoints[i - 1] - DataPoints[i]

\* a common multiple of the priors of the rated pairs
RECURSIVE CommonMultiple(_)
CommonMultiple(pairs) ==
    IF pairs = {} THEN 1
    ELSE LET i == CHOOSE x \in pairs : TRUE
             rest == CommonMultiple(pairs \ {i})
         IN  (rest \div GCD(rest, DataPoints[i - 1])) * DataPoints[i - 1]

\* the sum of the changes of the pairs, times the common multiple m
RECURSIVE ScaledChanges(_, _)
ScaledChanges(pairs, m) ==
    IF pairs = {} THEN 0
    ELSE LET i == CHOOSE x \in pairs : TRUE
         IN  Rise(i) * (m \div DataPoints[i - 1]) + ScaledChanges(pairs \ {i}, m)

\* some change is above 50%, or the mean of the changes is above 35%
TooVolatile ==
    \/ \E i \in RatedPairs : 100 * Rise(i) > 50 * DataPoints[i - 1]
    \/ LET m == CommonMultiple(RatedPairs)
       IN  100 * ScaledChanges(RatedPairs, m) > 35 * Cardinality(RatedPairs) * m

\* the volatility check ran on a history it could read
VolatilityComputed ==
    /\ ValidatorReturned
    /\ "balance_volatility" \in DOMAIN call_output.checks_performed
    /\ call_input.find_ok

\* C18: on at least 3 data points the volatility check rates each consecutive
\* pair with a positive prior sample by |b[i] - b[i-1]| / b[i-1] and fails iff
\* the largest change is above 50% or the mean change is above 70% of that;
\* without a rated pair it passes.  [100, 100, 160] is blocked, [100, 105,
\* 108] passes.
C18_VolatilityRule ==
    (VolatilityComputed /\ Len(DataPoints) >= 3) =>
        LET verdict == call_output.checks_performed.balance_volatility
        IN  /\ verdict.valid <=> ~TooVolatile
            /\ RatedPairs = {} => verdict.valid
            /\ DataPoints = <<100, 100, 160>> => ~verdict.valid
            /\ DataPoints = <<100, 105, 108>> => verdict.valid

\* C18 witness: changes of 40% and 43% are each below 50%, their mean is not
\* below 35%: blocked for the average
C18_Witness ==
    /\ VolatilityComputed
    /\ DataPoints = <<100, 140, 200>>
    /\ call_output.checks_performed.balance_volatility =
            [valid |-> FALSE, reason |-> Reason("high_average_volatility", 0)]

\* C19: with fewer than 3 data points (stored samples of the wallet inside
\* the window, plus the current balance) the volatility check passes without
\* rating anything; with 3 or more it rates them.
C19_ThreePointsNeeded ==
    VolatilityComputed =>
        LET verdict == call_output.checks_performed.balance_volatility
            unrated == verdict.reason.code \in
                            {"insufficient_history", "insufficient_data_points"}
        IN  /\ Len(DataPoints) < 3 => verdict.valid
            /\ unrated <=> Len(DataPoints) < 3

\* C19 witness: two samples are stored, one of them older than the window, and
\* a jump of 100% passes for want of data
C19_Witness ==
    /\ VolatilityComputed
    /\ balance_history_collection =
            <<HistoryRecord("w1", 100, WindowStart - 1), HistoryRecord("w1", 100, WindowStart)>>
    /\ call_input.current_balance = 200
    /\ call_output.checks_performed.balance_volatility =
            [valid |-> TRUE, reason |-> Reason("insufficient_history", 0)]

\* the finished passes, each by its thread and its place in the thread's list
FinishedAt == {tk \in Threads \X (1..MaxDeltas + 1) : tk[2] \in DOMAIN threads[tk[1]].log}
BlockedAt == {tk \in FinishedAt : threads[tk[1]].log[tk[2]].outcome = "blocked"}
AuditedAt == {tk \in FinishedAt : threads[tk[1]].log[tk[2]].audit_written}

\* the audit trail has a record with the account, the wallet, the balance at
\* decision time, the reasons and the per-check detail of the pass
HasAuditRecord(tk) ==
    LET update == threads[tk[1]].balance_updates[tk[2]]
    IN  \E r \in DOMAIN blocked_role_assignments :
            LET record == blocked_role_assignments[r]
            IN  /\ record.discordId = update.discordId
                /\ record.walletAddress = update.walletAddress
                /\ record.currentBalance = update.currentBalance
                /\ record.blocked_reasons # <<>>
                /\ "wallet_age" \in DOMAIN record.checks_performed
                /\ "balance_volatility" \in DOMAIN record.checks_performed
                /\ \/ ~record.checks_performed.wallet_age.valid
                   \/ ~record.checks_performed.balance_volatility.valid

\* a step leaves the audit trail alone or appends one record to it
AuditAppendOnly ==
    \/ blocked_role_assignments' = blocked_role_assignments
    \/ /\ Len(blocked_role_assignments') = Len(blocked_role_assignments) + 1
       /\ SubSeq(blocked_role_assignments', 1, Len(blocked_role_assignments))
                = blocked_role_assignments
       /\ \E t \in Threads : C5_BlockedStep(t)

\* C20 as stated: every blocked reconcile has appended exactly one AuditRecord.
C20_EveryBlockAudited ==
    Cardinality(BlockedAt) = Len(blocked_role_assignments)

\* C20 amended: a blocked reconcile appends one AuditRecord with the account,
\* wallet, balance, reasons and per-check detail when the audit store takes
\* the write, and none when the write raises; no other reconcile appends
\* one, and records once appended are never changed or removed.
C20_AuditOnBlockOnly ==
    /\ [](/\ AuditedAt \subseteq BlockedAt
          /\ Cardinality(AuditedAt) = Len(blocked_role_assignments)
          /\ \A tk \in AuditedAt : HasAuditRecord(tk))
    /\ [][AuditAppendOnly]_vars

\* C20 witness: two blocked reconciles, the audit write of the first one
\* raised, the second one is on record
C20_Witness ==
    /\ Cardinality(BlockedAt) = 2
    /\ Cardinality(AuditedAt) = 1
    /\ Len(blocked_role_assignments) = 1
    /\ <<"t1", 1>> \in BlockedAt \ AuditedAt

\* one step of the scheduler's state machine
C21_Step ==
    /\ (~scheduler.running /\ scheduler'.running) =>
            /\ scheduler'.started = scheduler.started + 1
            /\ scheduler'.at = "connect"
            /\ scheduler'.monitor_thread
    /\ scheduler'.started # scheduler.started =>
            /\ ~scheduler.running /\ scheduler'.running
            /\ scheduler'.started = scheduler.started + 1
    /\ (scheduler.running /\ ~scheduler'.running) =>
            /\ scheduler' = [scheduler EXCEPT !.running = FALSE]
            /\ mon' = mon
    /\ (~scheduler.ignored /\ scheduler'.ignored) =>
            /\ scheduler.running
            /\ scheduler' = [scheduler EXCEPT !.ignored = TRUE]
            /\ mon' = mon

\* C21: the monitor starts stopped; start_monitoring on a stopped monitor sets
\* running and starts exactly one loop thread; start_monitoring on a running
\* monitor changes nothing and starts no loop thread; stop_monitoring clears
\* running; a loop thread is started by no other step.
C21_StoppedRunningStopped ==
    /\ ~scheduler.running /\ scheduler.started = 0 /\ scheduler.at = "none"
    /\ [](scheduler.started = 0 => ~scheduler.running)
    /\ [][C21_Step]_vars

\* C21 witness: started once, started again while running and live, then stopped
C21_Witness ==
    /\ scheduler.started = 1
    /\ scheduler.ignored
    /\ ~scheduler.running
    /\ scheduler.at = "body"

\* the loop thread begins a cycle after one in which an exception was raised
\* and caught
CycleAfterError ==
    /\ mon.pc = "sleeping" /\ mon' # mon
    /\ scheduler.cycled
    /\ mon.raised

\* the loop thread ends
LoopExits == scheduler.at # "exited" /\ scheduler'.at = "exited"

\* C22 as stated: an exception raised in a cycle does not end the loop thread
\* (it ends only on running being false, or on a failed connect before the
\* first cycle), and the cycle after it begins once the loop has slept the
\* backoff of 5 seconds, not the interval of 30.
C22_BackoffAfterError ==
    /\ [][LoopExits => ~scheduler.running \/ scheduler.at = "connect"]_vars
    /\ [][CycleAfterError => scheduler.slept = backoff_seconds]_vars

\* the loop thread has been started and has not ended
LoopAlive == scheduler.at \in {"connect", "while", "body"}

\* a step taken while running is false and stays false
C23_StoppedStep ==
    (~scheduler.running /\ ~scheduler'.running) =>
        \* in a cycle: the loop thread goes on with the cycle
        /\ mon.pc # "sleeping" => scheduler' = scheduler
        \* between cycles: no cycle begins
        /\ mon.pc = "sleeping" => mon' = mon
        \* in the sleep: the next check leaves it, no further second is slept
        /\ (scheduler.at = "body" /\ mon.pc = "sleeping" /\ scheduler' # scheduler) =>
                scheduler' = [scheduler EXCEPT !.at = "while"]
        \* at the loop test: the loop is left
        /\ (scheduler.at = "while" /\ scheduler' # scheduler) =>
                scheduler' = [scheduler EXCEPT !.at = "exited"]

\* C23: while running is false and stays false the loop thread finishes the
\* cycle it is in, leaves the sleep between cycles at its next check of
\* running, begins no cycle, and in the end exits.
C23_StopsBetweenCycles ==
    /\ [][C23_StoppedStep]_vars
    /\ (~scheduler.running /\ mon.pc # "sleeping") ~> (mon.pc = "sleeping")
    /\ (~scheduler.running /\ LoopAlive) ~> (scheduler.running \/ scheduler.at = "exited")

\* C23 witness: stopped in the sleep after the first cycle, which had deltas;
\* the loop thread has left the sleep early and has exited
C23_Witness ==
    /\ ~scheduler.running
    /\ scheduler.at = "exited"
    /\ scheduler.cycled
    /\ scheduler.slept > 0 /\ scheduler.slept < interval_seconds
    /\ mon.cycle = 1
    /\ mon.balance_updates # <<>>

\* a role-update thread is at work on its deltas
ReconcileInProgress(t) == threads[t].pc \in {"gate", "member", "patch"}

\* schedule_role_update has returned and monitor_cycle with it: the thread it
\* started has the cycle's deltas and has not begun the first of them
C24_DispatchStep ==
    (mon.pc = "schedule" /\ mon' # mon) =>
        /\ mon'.pc = "sleeping"
        /\ mon'.cycle = mon.cycle + 1
        /\ \E t \in Threads :
                /\ threads'[t] # threads[t]
                /\ threads'[t].pc = "gate"
                /\ threads'[t].balance_updates = mon.balance_updates
                /\ threads'[t].i = 1 /\ threads'[t].log = <<>>
                /\ threads'[t].entry = NewEntry

\* C24: the poller does not wait for the role-update threads: the dispatch
\* step starts the thread and ends the cycle at once, whatever the threads
\* started earlier are doing, and between cycles the next cycle can begin
\* whatever the threads are doing.
C24_PollerNeverWaits ==
    /\ [][C24_DispatchStep]_vars
    /\ []((mon.pc = "schedule" /\ \E t \in Threads : FreeThread(t)) => ENABLED Schedule)
    /\ []((mon.pc = "sleeping" /\ mon.cycle < MaxCycles) => ENABLED StartCycle)

\* C24 witness: the second cycle is fetching while the thread started for the
\* first cycle's delta has not finished that delta
C24_Witness ==
    /\ mon.cycle = 1
    /\ mon.pc = "fetching"
    /\ ReconcileInProgress("t1")
    /\ threads["t1"].log = <<>>
    /\ UsersOf(threads["t1"].balance_updates) = mon.last.dispatched

\* one step, by who may write what of the balance state
C25_Step ==
    /\ users_collection' # users_collection =>
            /\ mon.pc = "update" /\ mon'.updated # mon.updated
            /\ threads' = threads
    /\ balance_history_collection' # balance_history_collection =>
            /\ mon.pc = "insert" /\ mon'.inserted > 0
            /\ threads' = threads
    /\ threads' # threads =>
            /\ users_collection' = users_collection
            /\ balance_history_collection' = balance_history_collection

\* C25: wallet links and balance history are written by the poller's
\* save_balance_history only: a step of a role-update thread, the validator's
\* checks in it included, leaves both as they are, the link's last known
\* balance changes only in the update loop of save_balance_history, and the
\* history only in its insert.
C25_BalanceStateOwnedByPoller ==
    [][C25_Step]_vars

\* C25 witness: the poller has stored a record and set the link, and the
\* thread of that delta has run the validator and changed the member's roles
C25_Witness ==
    /\ balance_history_collection # <<>>
    /\ \E k \in DOMAIN users_collection : LastKnownBalanceOf(users_collection[k]) = 120
    /\ \E p \in AllPasses :
            /\ p.entry.validated
            /\ p.entry.outcome = "applied"
            /\ p.update.currentBalance = 120

\* the thread was given deltas while token or guild id was missing, and has ended
EndedUnconfigured(t) ==
    /\ ~discord_configured
    /\ threads[t].pc = "done"
    /\ threads[t].balance_updates # <<>>

\* C26 as stated: a reconciliation run without token or guild id handles none
\* of its deltas (no validator call, no audit record, no member read, no role
\* update), and its caller does not report it as completed successfully.
C26_UnconfiguredIsSurfaced ==
    \A t \in Threads :
        EndedUnconfigured(t) =>
            /\ threads[t].log = <<>>
            /\ blocked_role_assignments = <<>>
            /\ \A m \in Members : ~last_write[m].written
            /\ ~threads[t].completed_logged

\* the role-set updates sent for each delta
C27_WritesPerPass ==
    \A p \in AllPasses :
        LET e == p.entry
        IN  /\ e.patches <= 1
            /\ e.patches = 1 => e.diffed /\ (e.roles_to_add # {} \/ e.roles_to_remove # {})
            /\ (e.diffed /\ e.roles_to_add = {} /\ e.roles_to_remove = {}) =>
                    e.patches = 0 /\ e.outcome = "skipped"
            /\ e.outcome = "skipped" =>
                    e.diffed /\ e.roles_to_add = {} /\ e.roles_to_remove = {} /\ e.patches = 0
            /\ e.outcome = "applied" => e.patches = 1

\* a member's roles change by the one update of a pass, which adds and removes
\* in the same write
C27_WriteStep ==
    \A m \in Members :
        member_roles'[m] # member_roles[m] =>
            \E t \in Threads :
                LET th == threads[t]
                IN  /\ th.pc = "patch"
                    /\ th.balance_updates[th.i].discordId = m
                    /\ th.entry.patches = 0
                    /\ threads'[t].log = Append(th.log, [th.entry EXCEPT !.patches = 1,
                                                                        !.outcome = "applied"])
                    /\ th.entry.roles_to_add \subseteq member_roles'[m]
                    /\ th.entry.roles_to_remove \cap member_roles'[m] = {}
                    /\ \A r \in PlatformRoles \ (th.entry.roles_to_add
                                                    \cup th.entry.roles_to_remove) :
                            r \in member_roles'[m] <=> r \in th.entry.current_roles

\* C27: a reconcile sends at most one role-set update per delta, the update
\* carries additions and removals together, and no update is sent when both
\* sets are empty, the outcome then being skipped.
C27_OneWritePerDelta ==
    /\ []C27_WritesPerPass
    /\ [][C27_WriteStep]_vars

\* C27 witness: one accepted update that both added and removed roles
C27_Witness ==
    \E p \in AllPasses :
        /\ p.entry.outcome = "applied"
        /\ p.entry.patches = 1
        /\ p.entry.roles_to_add = {"H"}
        /\ p.entry.roles_to_remove = {"A2"}
        /\ member_roles[p.update.discordId] = {"H", "A1", "X"}

\* the passes that have left the gate: the finished ones, and the one under
\* way once it is at the member read or at the update
PastGate(t) ==
    LET th == threads[t]
    IN  {[update |-> th.balance_updates[k], entry |-> th.log[k]] : k \in DOMAIN th.log}
        \cup (IF th.pc \in {"member", "patch"}
              THEN {[update |-> th.balance_updates[th.i], entry |-> th.entry]}
              ELSE {})
AllPastGate == UNION {PastGate(t) : t \in Threads}
AllFinished ==
    UNION {{[update |-> threads[t].balance_updates[k], entry |-> threads[t].log[k]] :
                k \in DOMAIN threads[t].log} : t \in Threads}

\* the validator has run for exactly the deltas with a wallet address and a
\* balance above 0
C28_ValidatedIff ==
    \A p \in AllPastGate :
        p.entry.validated <=>
            (p.update.currentBalance > 0 /\ p.update.walletAddress # NoAddress)

\* a delta with a balance of 0 or less is not blocked, and its diff, when
\* computed, adds nothing and removes every managed role the member holds
C28_ZeroNeverBlocked ==
    \A p \in AllPasses :
        p.update.currentBalance <= 0 =>
            /\ ~p.entry.validated
            /\ p.entry.outcome # "blocked"
            /\ p.entry.diffed =>
                    /\ p.entry.roles_to_add = {}
                    /\ p.entry.roles_to_remove = p.entry.current_roles \cap ManagedIds
                    /\ p.entry.new_roles \cap ManagedIds = {}

\* C28 as stated: the validator runs iff balance > 0 and the wallet address is
\* present, and a delta with balance <= 0 is never blocked and always gets to
\* the role diff, which removes every managed role held.
C28_ZeroAlwaysDiffed ==
    /\ C28_ValidatedIff
    /\ C28_ZeroNeverBlocked
    /\ \A p \in AllFinished : p.update.currentBalance <= 0 => p.entry.diffed

\* C28 amended: the validator runs iff balance > 0 and the wallet address is
\* present; a delta with balance <= 0 is never blocked and always gets to the
\* member read; when the member read and the catalog read succeed its diff
\* adds nothing and removes every managed role held, and otherwise the delta
\* ends without a diff.
C28_GateCondition ==
    /\ C28_ValidatedIff
    /\ C28_ZeroNeverBlocked
    /\ \A p \in AllFinished :
            p.update.currentBalance <= 0 =>
                /\ p.entry.looked_up
                /\ ~p.entry.diffed => p.entry.outcome \in {"no_member", "exception"}

\* C28 witness: a delta to balance 0 went unvalidated to the diff, which took
\* both tiers from a member holding them beside the role "X"
C28_Witness ==
    \E p \in AllFinished :
        /\ p.update.currentBalance = 0
        /\ p.update.walletAddress = "w1"
        /\ ~p.entry.validated
        /\ p.entry.roles_to_remove = {"A1", "A2"}
        /\ p.entry.outcome = "applied"
        /\ member_roles[p.update.discordId] = {"X"}

\* the fetch of a wallet with a last known balance above 0 fails: the sample is
\* 0 and a delta from the last known balance to 0 joins the cycle's deltas
C29_FailedFetchStep ==
    (/\ mon.pc = "fetching"
     /\ Len(mon'.fetch_ok) = Len(mon.fetch_ok) + 1
     /\ ~mon'.fetch_ok[Len(mon'.fetch_ok)].ok
     /\ LastKnownBalanceOf(mon.wallets[mon.k]) > 0) =>
        LET wallet == mon.wallets[mon.k]
        IN  mon'.balance_updates =
                Append(mon.balance_updates,
                       [userId |-> wallet._id, discordId |-> wallet.discordId,
                        walletAddress |-> wallet.walletAddress,
                        previousBalance |-> LastKnownBalanceOf(wallet),
                        currentBalance |-> 0, timestamp |-> now])

\* the passes over the deltas of the last dispatch that stem from a failed fetch
FailedFetchPasses ==
    UNION {{[update |-> threads[t].balance_updates[k], entry |-> e] :
                e \in (IF k \in DOMAIN threads[t].log THEN {threads[t].log[k]}
                       ELSE IF k = threads[t].i /\ ReconcileInProgress(t)
                            THEN {threads[t].entry} ELSE {})} :
            <<t, k>> \in {tk \in Threads \X DOMAIN mon.delta_response :
                            /\ mon.pc = "sleeping"
                            /\ threads[tk[1]].balance_updates = mon.balance_updates
                            /\ ~mon.delta_response[tk[2]].ok}}

\* C29: a failed balance fetch for a wallet whose last known balance is above
\* 0 yields a delta to 0, as a fetched balance of 0 would; the reconcile of
\* that delta runs no validator, is not blocked, and its diff adds nothing
\* and removes every managed role the member holds, so that the update it
\* sends carries none of the managed roles.
C29_FailureReadAsZero ==
    /\ [][C29_FailedFetchStep]_vars
    /\ [](\A p \in FailedFetchPasses :
            /\ p.update.currentBalance = 0
            /\ ~p.entry.validated /\ p.entry.outcome # "blocked"
            /\ p.entry.diffed =>
                    /\ p.entry.roles_to_add = {}
                    /\ p.entry.roles_to_remove = p.entry.current_roles \cap ManagedIds
                    /\ p.entry.new_roles = p.entry.current_roles \ ManagedIds
            /\ p.entry.patches = 1 => p.entry.roles_to_remove # {})

\* C29 witness: the wallet was known with 120 and the member held the roles of
\* 120; the fetch of the second cycle failed, and the reconcile of its delta
\* took the holder role and the tier from the member
C29_Witness ==
    /\ mon.cycle = 2 /\ mon.pc = "sleeping"
    /\ mon.delta_response = <<FetchFailed>>
    /\ \E p \in FailedFetchPasses :
            /\ p.update.previousBalance = 120
            /\ p.entry.outcome = "applied"
            /\ p.entry.roles_to_remove = {"H", "A2"}
            /\ member_roles[p.update.discordId] = {"X"}

\* thread t ends the pass over its current delta in a failure of the platform
\* API or in an exception
C30_FailedStep(t) ==
    /\ ReconcileInProgress(t)
    /\ Len(threads'[t].log) = Len(threads[t].log) + 1
    /\ threads'[t].log[Len(threads'[t].log)].outcome \in ApiFailures

\* C30: a delta that fails (member lookup not answered with 200, an exception,
\* a rejected role update) leaves the roles of every member as they were, and
\* the run goes on with its next delta; a run that has ended has been through
\* each of its deltas.
C30_FailureIsolatedToDelta ==
    /\ [][\A t \in Threads :
            C30_FailedStep(t) =>
                /\ member_roles' = member_roles
                /\ IF threads[t].i < Len(threads[t].balance_updates)
                   THEN /\ threads'[t].pc = "gate"
                        /\ threads'[t].i = threads[t].i + 1
                        /\ threads'[t].entry = NewEntry
                   ELSE threads'[t].pc = "done"]_vars
    /\ [](\A t \in Threads :
            (threads[t].pc = "done" /\ discord_configured) =>
                Len(threads[t].log) = Len(threads[t].balance_updates))

\* C30 witness: in a run of two deltas the role update of the first one was
\* rejected and the second one was applied
C30_Witness ==
    \E t \in Threads :
        /\ Len(threads[t].log) = 2
        /\ threads[t].log[1].outcome = "rejected"
        /\ threads[t].log[1].roles_to_add # {}
        /\ threads[t].log[2].outcome = "applied"

\* the fetches started and not yet returned
FetchesInFlight == IF mon.pc = "fetching" /\ mon.awaiting THEN {mon.k} ELSE {}

\* the wallets whose fetch has returned in this cycle
FetchesDone == DOMAIN mon.fetch_ok

\* the fetches in flight are of the current batch, which has at most
\* batch_size wallets
C31_BoundedBatch ==
    /\ Cardinality(FetchesInFlight) <= batch_size
    /\ mon.batch_end - mon.batch_start + 1 <= batch_size
    /\ \A k \in FetchesInFlight : mon.batch_start <= k /\ k <= mon.batch_end

\* a batch is cut once every fetch of the batches before it has returned, and
\* records are stored once every fetch of the cycle has returned
C31_Step ==
    /\ mon'.batch_end # mon.batch_end /\ mon'.batch_end # 0 =>
            /\ FetchesInFlight = {}
            /\ FetchesDone = 1..mon.batch_end
            /\ mon'.batch_start = mon.batch_end + 1
    /\ balance_history_collection' # balance_history_collection =>
            /\ FetchesInFlight = {}
            /\ FetchesDone = DOMAIN mon.wallets

\* C31: during a poll cycle at most batch_size balance fetches are in flight
\* (the fetches of a batch are awaited one after the other), a batch starts
\* once every fetch of the batch before it has returned, and the cycle's
\* records are persisted once every fetch of every batch has returned.
C31_BatchesFanIn ==
    /\ []C31_BoundedBatch
    /\ [][C31_Step]_vars

\* C31 witness: a fetch of the second batch is in flight, the ten fetches of
\* the first batch have returned, nothing is stored yet
C31_Witness ==
    /\ Len(mon.wallets) = 12
    /\ mon.batch_start = batch_size + 1
    /\ FetchesInFlight = {11}
    /\ FetchesDone = 1..batch_size
    /\ Len(mon.balance_updates) = batch_size
    /\ balance_history_collection = <<>>

\* the records of a wallet address, in the order of the collection
RecordsOf(history, wallet_address) ==
    SelectSeq(history, LAMBDA record : record.walletAddress = wallet_address)

WalletAddresses ==
    {balance_history_collection[k].walletAddress : k \in DOMAIN balance_history_collection}

\* the stored records stay, in their places, and new ones come after them
C32_AppendStep ==
    /\ Len(balance_history_collection') >= Len(balance_history_collection)
    /\ SubSeq(balance_history_collection', 1, Len(balance_history_collection))
            = balance_history_collection

\* C32: balance history only grows at its end, and the records of each wallet
\* address carry increasing timestamps in the order they were appended.
C32_HistoryAppendOnlyOrdered ==
    /\ [][C32_AppendStep]_vars
    /\ [](\A w \in WalletAddresses :
            LET records == RecordsOf(balance_history_collection, w)
            IN  \A i, j \in DOMAIN records :
                    i < j => records[i].timestamp < records[j].timestamp)

\* C32 witness: two cycles have each stored a record of wallet "w1", between
\* them a record of another wallet
C32_Witness ==
    /\ Len(RecordsOf(balance_history_collection, "w1")) = 2
    /\ Len(balance_history_collection) >= 3
    /\ balance_history_collection[1].walletAddress = "w1"
    /\ balance_history_collection[2].walletAddress # "w1"

\* C33: two reconciles of one member dispatched by successive cycles for
\* different balances have both finished, each with the catalog read and its
\* update, if it sent one, accepted: the member's managed roles are those of
\* the balance of the later cycle.  (Run one after the other they end so; the
\* statement can only fail where they overlap.)
C33_LatestBalanceWins ==
    \A p, q \in AllFinished :
        ( /\ \A t \in Threads : threads[t].pc \in {"idle", "done"}
          /\ p.update.discordId = q.update.discordId
          /\ p.update.timestamp < q.update.timestamp
          /\ p.update.currentBalance # q.update.currentBalance
          /\ \A r \in {p, q} :
                r.entry.outcome \in {"applied", "skipped"} /\ r.entry.catalog_ok )
        => member_roles[q.update.discordId] \cap ManagedIds
                = QualifiedIds(q.update.currentBalance)

\* C34: at most one monitor loop is in a poll cycle at any time, whatever the
\* order of the start_monitoring and stop_monitoring calls.
C34_OneLoopCycling ==
    ~( /\ InCycle(scheduler.at, mon)
       /\ LoopAliveAt(scheduler.other.at)
       /\ InCycle(scheduler.other.at, scheduler.other.mon) )

\* C35: while running is true a loop thread is alive.
C35_RunningMeansAlive ==
    scheduler.running => LoopAliveAt(scheduler.at) \/ LoopAliveAt(scheduler.other.at)

\* C36: a reconcile pass whose catalog read in get_roles_for_balance failed
\* removes no managed role: the update it computes, and sends if it sends one,
\* lists no role to remove.
C36_CatalogFailureRemovesNothing ==
    \A p \in AllPasses :
        ( /\ p.entry.diffed
          /\ ~p.entry.catalog_ok
          /\ p.entry.outcome = "applied" )
        => p.entry.roles_to_remove = {}

\* C37: a reconcile pass sends a role update only for a delta that
\* save_balance_history persisted: its BalanceRecord is in balance_history.
C37_MutationOnlyIfPersisted ==
    \A p \in AllPasses :
        p.entry.patches > 0
        => \E r \in DOMAIN balance_history_collection :
                balance_history_collection[r] = p.update

\* C38: a request whose wallet the validator found not valid is answered
\* with 403, and the member's roles are what they were.
C38_InvalidIsRejected ==
    ( /\ call_state = "returned"
      /\ call_output.validated
      /\ ~call_output.is_valid )
    => /\ call_output.status_code = 403
       /\ member_roles[call_input.discord_id] = call_input.held

\* the documents of a sequence, as a set
DocSet(roles) == {roles[i] : i \in DOMAIN roles}

\* C39: on the same catalog, read without error, and for the same balance the
\* two resolvers return the same set of roles.
C39_ResolversAgree ==
    (call_state = "returned" /\ call_find.ok)
    => /\ ~call_output.raised
       /\ DocSet(call_output.roles) = DocSet(call_result)

\* the records of a wallet stamped within the volatility window that ends at
\* clock
InWindow(wallet_address, clock) ==
    {r \in DOMAIN balance_history_collection :
        /\ balance_history_collection[r].walletAddress = wallet_address
        /\ balance_history_collection[r].timestamp >= clock - volatility_window_minutes
        /\ balance_history_collection[r].timestamp <= clock}

\* a delta of a wallet with no record in the window but its own is not blocked
\* for volatility: no audit record of a validation that saw at most one record
\* of the wallet cites the volatility check
LoneDeltaNotVolatile ==
    \A k \in DOMAIN blocked_role_assignments :
        LET blocked == blocked_role_assignments[k]
        IN  Cardinality(InWindow(blocked.walletAddress, blocked.timestamp)) <= 1
            => \A i \in DOMAIN blocked.blocked_reasons :
                    blocked.blocked_reasons[i].check # "Balance Volatility"

\* C40: in a reconcile dispatched by a poll cycle the delta's BalanceRecord is
\* in balance_history when the validator runs, so that the volatility check
\* reads it before the balance it is called with; and a delta of a wallet with
\* no other record in the window is not blocked for volatility.
C40_RecordPersistedBeforeValidation ==
    /\ \A p \in AllPasses :
            p.entry.validated
            => \E r \in DOMAIN balance_history_collection :
                    balance_history_collection[r] = p.update
    /\ LoneDeltaNotVolatile

====
